---------------------------- MODULE Spec2Model ----------------------------
(***************************************************************************)
(* A model of oxycsbot.py: the tag-based ChatBot framework (tag            *)
(* extraction, state dispatch, go_to_state / finish lifecycle) and the     *)
(* OxyCSBot dialogue configured on top of it.                              *)
(*                                                                         *)
(* Python strings that the code inspects character by character (messages  *)
(* and lexicon phrases) are sequences of one-character strings.  Names     *)
(* that the code only compares (states, tags, finish manners, mentor       *)
(* names) are TLA+ strings.  A handler is an operator from the bot (the    *)
(* record "self") to the set of outcomes the call can have: the bot        *)
(* afterwards, the text returned, the exception raised and the engine      *)
(* steps taken.  Several outcomes exist where the code draws at random or  *)
(* iterates over a Python set.                                             *)
(***************************************************************************)
EXTENDS Naturals, Sequences, FiniteSets, TLC

VARIABLES
  state,        \* self.state
  mentor,       \* self.mentor
  gmentor,      \* self.gmentor
  start,        \* self.start
  umentor,      \* self.umentor
  current,      \* self.current
  positive,     \* self.positive
  negative,     \* self.negative
  medium_rare,  \* self.medium_rare
  methods,      \* the names of the on_enter, respond_from and finish methods of the bot
  call,         \* the last call made on the bot: its operation and argument
  response,     \* what that call returned (NoResponse when it raised)
  error,        \* the exception that call raised ("none" when it returned)
  trace,        \* the engine steps of that call, in order
  lexicon,      \* self.TAGS of the subclass of LexiconSpec (OxyCSBot's is TAGS)
  empty_calls,  \* how many calls in a row, up to now, were respond('') in the default state
  other         \* the attributes of a second bot of the same class (None: there is none)

vars == << state, mentor, gmentor, start, umentor, current, positive, negative,
           medium_rare, methods, call, response, error, trace, lexicon,
           empty_calls, other >>

(***************************************************************************)
(* Bounds of the model.                                                    *)
(***************************************************************************)
\* self.start and self.umentor are unbounded Python ints: a call that would
\* take one of them past its bound is not taken.
MaxStart == 2
MaxUmentor == 2
\* empty_calls stops counting here
MaxEmptyCalls == 2
\* The longest lexicon a subclass of LexiconSpec is given
MaxLexicon == 2

None == "None"
NoResponse == << >>

(***************************************************************************)
(* Configuration data of OxyCSBot.                                         *)
(***************************************************************************)
\* A TAGS value as written in the class body: a str or a list of str.
StrEntry(phrase, tag) ==
  [phrase |-> phrase, type |-> "str", str |-> tag, list |-> << >>]
ListEntry(phrase, tags) ==
  [phrase |-> phrase, type |-> "list", str |-> "", list |-> tags]
\* A tuple of str, and a value of any other class (named by its class)
TupleEntry(phrase, tags) ==
  [phrase |-> phrase, type |-> "tuple", str |-> "", list |-> tags]
OtherEntry(phrase, class) ==
  [phrase |-> phrase, type |-> class, str |-> "", list |-> << >>]

STATES ==
  << "waiting", "introduction", "bad_transition", "sciac",
     "yes_coach", "no_coach", "sciac_matchup", "sciac_response",
     "sport", "team_sport", "good_team", "good_team1",
     "no_team", "yes_team", "captain", "leave",
     "individual_sport", "connections", "soccer", "ms_mentor",
     "ws_mentor", "unrecognized_mentor", "ask_number", "give_number",
     "other_teammates", "medium_rare", "amber", "confused",
     "sad_life", "team_chemistry", "talk_to_team", "advice",
     "other_connections" >>

OxyCSBot_TAGS == <<
  StrEntry(<<"h", "e", "l", "l", "o">>, "greeting"),
  StrEntry(<<"h", "i">>, "greeting"),
  StrEntry(<<"h", "o", "w", "d", "y">>, "greeting"),
  StrEntry(<<"w", "a", "s", "s", "u", "p">>, "greeting"),
  StrEntry(<<"h", "e", "y">>, "greeting"),
  StrEntry(<<"h", "e", "l", "p">>, "help"),
  StrEntry(<<"t", "h", "a", "n", "k", "s">>, "thanks"),
  StrEntry(<<"t", "y">>, "thanks"),
  StrEntry(<<"t", "h", "a", "n", "k">>, "thanks"),
  StrEntry(<<"b", "y", "e">>, "thanks"),
  StrEntry(<<"s", "u", "r", "e", " ", "t", "h", "i", "n", "g">>, "thanks"),
  StrEntry(<<"t", "e", "a", "m">>, "team"),
  StrEntry(<<"t", "e", "a", "m", "m", "a", "t", "e", "s">>, "team"),
  StrEntry(<<"t", "e", "a", "m", "m", "a", "t", "e">>, "team"),
  StrEntry(<<"t", "e", "a", "m", "a", "t", "e">>, "team"),
  StrEntry(<<"t", "e", "a", "m", "a", "t", "e", "s">>, "team"),
  StrEntry(<<"c", "o", "a", "c", "h">>, "coach"),
  StrEntry(<<"y", "e", "s">>, "yes"),
  StrEntry(<<"y", "e">>, "yes"),
  StrEntry(<<"y", "e", "a">>, "yes"),
  StrEntry(<<"y", "e", "a", "h">>, "yes"),
  StrEntry(<<"y", "a">>, "yes"),
  StrEntry(<<"y", "e", "p">>, "yes"),
  StrEntry(<<"n", "o">>, "no"),
  StrEntry(<<"n", "o", "p", "e">>, "no"),
  StrEntry(<<"a", "w", "f", "u", "l">>, "no"),
  StrEntry(<<"g", "o", "o", "d">>, "yes"),
  StrEntry(<<"g", "r", "e", "a", "t">>, "yes"),
  StrEntry(<<"w", "e", "l", "l">>, "yes"),
  StrEntry(<<"w", "o", "n">>, "yes"),
  StrEntry(<<"w", "i", "n">>, "yes"),
  StrEntry(<<"s", "u", "r", "e">>, "yes"),
  StrEntry(<<"n", "e", "e", "d">>, "yes"),
  StrEntry(<<"f", "i", "n", "e">>, "medium_rare"),
  ListEntry(<<"o", "k", "a", "y">>, <<"medium_rare", "thanks", "yes">>),
  ListEntry(<<"o", "k">>, <<"medium_rare", "thanks", "yes">>),
  StrEntry(<<"g", "u", "e", "s", "s">>, "medium_rare"),
  StrEntry(<<"n", "o", "t", " ", "b", "a", "d">>, "medium_rare"),
  StrEntry(<<"i", "s", " ", "t", "h", "e", "r", "e", " ", "a", "n", "y", "t", "h", "i", "n", "g">>, "question"),
  StrEntry(<<"w", "h", "a", "t">>, "question"),
  StrEntry(<<"w", "h", "a", "t", " ", "e", "l", "s", "e">>, "question"),
  StrEntry(<<"a", "n", "y", "t", "h", "i", "n", "g", " ", "e", "l", "s", "e">>, "question"),
  StrEntry(<<"u", "h">>, "what_the"),
  StrEntry(<<"o", "h">>, "what_the"),
  StrEntry(<<"h", "m">>, "what_the"),
  StrEntry(<<"u", "m">>, "what_the"),
  StrEntry(<<"e", "h">>, "what_the"),
  StrEntry(<<"l", "o", "s", "t">>, "no"),
  StrEntry(<<"l", "o", "s", "e">>, "no"),
  StrEntry(<<"b", "a", "d">>, "no"),
  StrEntry(<<"h", "e", "a", "v", "e", "n", "s", " ", "f", "o", "r", "b", "i", "d">>, "no"),
  StrEntry(<<"d", "i", "f", "f", "i", "c", "u", "l", "t">>, "no"),
  StrEntry(<<"t", "e", "r", "r", "i", "b", "l", "e">>, "no"),
  StrEntry(<<"n", "a", "h">>, "no"),
  StrEntry(<<"r", "o", "u", "g", "h">>, "no"),
  StrEntry(<<"n", "o", "t", " ", "r", "e", "a", "l", "l", "y">>, "no"),
  StrEntry(<<"h", "a", "r", "d">>, "no"),
  StrEntry(<<"t", "o", "u", "g", "h">>, "no"),
  StrEntry(<<"w", "a", "s", "n", "'", "t">>, "no"),
  StrEntry(<<"n", "o", "t", " ", "t", "h", "a", "t", " ", "w", "e", "l", "l">>, "no"),
  StrEntry(<<"n", "o", "t", " ", "t", "h", "a", "t", " ", "g", "o", "o", "d">>, "no"),
  StrEntry(<<"n", "o", "t", " ", "g", "r", "e", "a", "t">>, "no"),
  StrEntry(<<"n", "o", "t", " ", "g", "o", "o", "d">>, "no"),
  StrEntry(<<"n", "o", "t", " ", "w", "e", "l", "l">>, "no"),
  StrEntry(<<"n", "o", "t", " ", "y", "e", "t">>, "no"),
  StrEntry(<<"n", "o", "t", " ", "t", "h", "a", "t", " ", "g", "r", "e", "a", "t">>, "no"),
  ListEntry(<<"t", "r", "a", "n", "s", "f", "e", "r", "r", "i", "n", "g">>, <<"leave", "no">>),
  ListEntry(<<"t", "r", "a", "n", "s", "f", "e", "r">>, <<"leave", "no">>),
  ListEntry(<<"l", "e", "a", "v", "e">>, <<"leave", "no">>),
  ListEntry(<<"q", "u", "i", "t">>, <<"leave", "no">>),
  StrEntry(<<"i", "s", "n", "'", "t">>, "no"),
  StrEntry(<<"d", "o", "e", "s", "n", "'", "t", ":", " ", "n", "o", "d", "o", "n", "'", "t">>, "no"),
  StrEntry(<<"h", "a", "v", "e", "n", "t">>, "no"),
  StrEntry(<<"h", "a", "v", "e", "n", "'", "t">>, "no"),
  StrEntry(<<"h", "a", "v", "e", " ", "n", "o", "t">>, "no"),
  StrEntry(<<"s", "c", "a", "r", "e", "d">>, "no"),
  StrEntry(<<"s", "c", "a", "r", "e">>, "no"),
  StrEntry(<<"d", "o", "n", "t">>, "no"),
  StrEntry(<<"w", "a", "s", "n", "t">>, "no"),
  StrEntry(<<"i", "s", "n", "t">>, "no"),
  StrEntry(<<"d", "o", "e", "s", "n", "t">>, "no"),
  StrEntry(<<"h", "e", "l", "l">>, "no"),
  StrEntry(<<"s", "h", "i", "t">>, "no"),
  StrEntry(<<"f", "u", "c", "k", "i", "n", "g">>, "no"),
  StrEntry(<<"f", "k", "i", "n", "g">>, "no"),
  StrEntry(<<"f", "u", "c", "k">>, "no"),
  StrEntry(<<"s", "h", "t">>, "no"),
  ListEntry(<<"r", "u", "d", "e">>, <<"no", "sad_life">>),
  ListEntry(<<"h", "a", "t", "e">>, <<"no", "sad_life">>),
  StrEntry(<<"u", "n", "f", "r", "i", "e", "n", "d", "l", "y">>, "sad_life"),
  StrEntry(<<"n", "o", "t", " ", "n", "i", "c", "e">>, "sad_life"),
  StrEntry(<<"b", "u", "l", "l", "y", "i", "n", "g">>, "sad_life"),
  StrEntry(<<"b", "u", "l", "l", "i", "e", "d">>, "sad_life"),
  StrEntry(<<"b", "u", "l", "l", "y">>, "sad_life"),
  StrEntry(<<"b", "u", "l", "l", "i", "e", "s">>, "sad_life"),
  StrEntry(<<"b", "u", "l", "l", "y", "s">>, "sad_life"),
  StrEntry(<<"i", "g", "n", "o", "r", "e">>, "sad_life"),
  StrEntry(<<"m", "e", "a", "n">>, "sad_life"),
  StrEntry(<<"f", "o", "r", "g", "o", "t">>, "leave_loop"),
  StrEntry(<<"m", "o", "v", "e", " ", "o", "n">>, "leave_loop"),
  StrEntry(<<"f", "o", "r", "g", "e", "t">>, "leave_loop"),
  StrEntry(<<"r", "e", "m", "e", "m", "b", "e", "r">>, "leave_loop"),
  StrEntry(<<"r", "e", "c", "a", "l", "l">>, "leave_loop"),
  StrEntry(<<"m", "e", "m", "o", "r", "y">>, "leave_loop"),
  StrEntry(<<"s", "o", "c", "c", "e", "r">>, "soccer"),
  StrEntry(<<"b", "a", "s", "k", "e", "t", "b", "a", "l", "l">>, "basketball"),
  StrEntry(<<"f", "o", "o", "t", "b", "a", "l", "l">>, "football"),
  StrEntry(<<"f", "u", "t", "b", "a", "l", "l">>, "football"),
  StrEntry(<<"b", "a", "s", "e", "b", "a", "l", "l">>, "baseball"),
  StrEntry(<<"l", "a", "c", "r", "o", "s", "e">>, "lacrose"),
  StrEntry(<<"w", "a", "t", "e", "r", " ", "p", "o", "l", "o">>, "water polo"),
  StrEntry(<<"c", "r", "o", "s", "s", " ", "c", "o", "u", "n", "t", "r", "y">>, "cross country"),
  StrEntry(<<"x", "c">>, "cross country"),
  StrEntry(<<"s", "o", "f", "t", "b", "a", "l", "l">>, "softball"),
  StrEntry(<<"v", "o", "l", "l", "e", "y", "b", "a", "l", "l">>, "volleyball"),
  StrEntry(<<"t", "r", "a", "c", "k", " ", "a", "n", "d", " ", "f", "i", "e", "l", "d">>, "track and field"),
  StrEntry(<<"t", "r", "a", "c", "k">>, "track and field"),
  StrEntry(<<"g", "o", "l", "f">>, "golf"),
  StrEntry(<<"g", "o", "l", "f", "i", "n", "g">>, "golf"),
  StrEntry(<<"s", "w", "i", "m", "m", "i", "n", "g">>, "swimming"),
  StrEntry(<<"s", "w", "i", "m">>, "swimming"),
  StrEntry(<<"t", "e", "n", "n", "i", "s">>, "tennis"),
  StrEntry(<<"s", "y", "d", "n", "e", "y">>, "sydney tomlinson"),
  StrEntry(<<"s", "y", "d">>, "sydney tomlinson"),
  StrEntry(<<"t", "o", "m", "l", "i", "n", "s", "o", "n">>, "sydney tomlinson"),
  StrEntry(<<"e", "m", "i", "l", "y">>, "emily leonard"),
  StrEntry(<<"l", "e", "o", "n", "a", "r", "d">>, "emily leonard"),
  StrEntry(<<"e", "m">>, "emily leonard"),
  StrEntry(<<"n", "i", "c", "o", "l", "e">>, "nicole castro"),
  StrEntry(<<"c", "a", "s", "t", "r", "o">>, "nicole castro"),
  StrEntry(<<"n", "i", "c">>, "nicole castro"),
  StrEntry(<<"k", "a", "t", "h", "e", "r", "i", "n", "e">>, "katherine kim"),
  StrEntry(<<"k", "a", "t">>, "katherine kim"),
  StrEntry(<<"k", "i", "m">>, "katherine kim"),
  StrEntry(<<"s", "o", "p", "h", "i", "a">>, "sophia vallas"),
  StrEntry(<<"s", "o", "p", "h">>, "sophia vallas"),
  StrEntry(<<"v", "a", "l", "l", "a", "s">>, "sophia vallas"),
  StrEntry(<<"e", "l", "l", "e", "n", "i">>, "elleni bekele"),
  StrEntry(<<"b", "e", "k", "e", "l", "e">>, "elleni bekele"),
  StrEntry(<<"k", "a", "r", "l", "a">>, "karla lopez"),
  StrEntry(<<"l", "o", "p", "e", "z">>, "karla lopez"),
  StrEntry(<<"b", "e", "r", "k", "l", "i">>, "berkli manigo"),
  StrEntry(<<"m", "a", "n", "i", "n", "g", "o">>, "berkli manigo"),
  StrEntry(<<"b", "e", "r", "k">>, "berkli manigo"),
  StrEntry(<<"m", "e", "r", "e", "d", "i", "t", "h">>, "meredith cook"),
  StrEntry(<<"c", "o", "o", "k">>, "meredith cook"),
  StrEntry(<<"m", "e", "r">>, "meredith cook"),
  StrEntry(<<"d", "e", "v", "o", "n", "e", "y">>, "devoney amberg"),
  StrEntry(<<"a", "m", "b", "e", "r", "g">>, "devoney amberg"),
  StrEntry(<<"d", "e", "v">>, "devoney amberg"),
  StrEntry(<<"l", "u", "k", "e">>, "luke hass"),
  StrEntry(<<"h", "a", "a", "s">>, "luke hass"),
  StrEntry(<<"s", "c", "o", "t", "t">>, "scott drazan"),
  StrEntry(<<"d", "r", "a", "z", "a", "n">>, "scott drazan"),
  StrEntry(<<"s", "c", "o", "t", "t", "i", "e">>, "scott drazan"),
  StrEntry(<<"d", "r", "a">>, "scott drazan"),
  StrEntry(<<"a", "u", "s", "t", "i", "n">>, "austin lee"),
  StrEntry(<<"l", "e", "e">>, "austin lee"),
  StrEntry(<<"r", "y", "a", "n">>, "ryan wilson"),
  StrEntry(<<"w", "i", "l", "s", "o", "n">>, "ryan wilson"),
  StrEntry(<<"a", "r", "i", "e", "l">>, "ariel rosso"),
  StrEntry(<<"r", "o", "s", "s", "o">>, "ariel rosso"),
  StrEntry(<<"a", "r", "i">>, "ariel rosso"),
  StrEntry(<<"b", "e", "n">>, "ben simon"),
  StrEntry(<<"s", "i", "m", "o", "n">>, "ben simon"),
  StrEntry(<<"b", "e", "n", "j", "a", "m", "i", "n">>, "ben simon"),
  StrEntry(<<"l", "i", "a", "m">>, "liam walsh"),
  StrEntry(<<"w", "a", "l", "s", "h">>, "liam walsh"),
  StrEntry(<<"e", "t", "h", "a", "n">>, "ethan glass"),
  StrEntry(<<"g", "l", "a", "s", "s">>, "ethan glass"),
  StrEntry(<<"g", "l", "a", "s", "s", "e", "r">>, "ethan glass"),
  StrEntry(<<"g", "l", "a", "s", "s", "i", "n", "h", "o">>, "ethan glass"),
  StrEntry(<<"c", "o", "n", "a", "l">>, "conal dennison"),
  StrEntry(<<"d", "e", "n", "n", "i", "s", "o", "n">>, "conal dennison"),
  StrEntry(<<"c", "o", "n", "n", "i", "e">>, "conal dennison"),
  StrEntry(<<"m", "a", "t", "t">>, "matthew labrie"),
  StrEntry(<<"m", "a", "t", "t", "h", "e", "w">>, "matthew labrie"),
  StrEntry(<<"t", "e", "o">>, "matthew labrie"),
  StrEntry(<<"l", "a", "b", "r", "i", "e">>, "matthew labrie"),
  StrEntry(<<"m", "a", "t", "t", "y">>, "matthew labrie"),
  StrEntry(<<"m", "a", "t", "t", " ", "l", "a", "b", "r", "i", "e">>, "matthew labrie"),
  StrEntry(<<"d", "a", "v", "i", "d">>, "david paine"),
  StrEntry(<<"d", "a", "v", "e">>, "david paine"),
  StrEntry(<<"d", "m">>, "david paine"),
  StrEntry(<<"d", "m", "p">>, "david paine"),
  StrEntry(<<"p", "a", "i", "n", "e">>, "david paine"),
  StrEntry(<<"r", "i", "l", "e", "y">>, "riley mccabe"),
  StrEntry(<<"m", "c", "c", "a", "b", "e">>, "riley mccabe"),
  StrEntry(<<"m", "i", "l", "e", "s">>, "miles robertson"),
  StrEntry(<<"r", "o", "b", "e", "r", "t", "s", "o", "n">>, "miles robertson") >>

TEAM_SPORTS ==
  { "soccer",
    "basketball",
    "football",
    "baseball",
    "lacrose",
    "water polo",
    "cross country",
    "softball",
    "volleyball" }

INDIVIDUAL_SPORTS ==
  << "track and field",
     "golf",
     "swimming",
     "tennis" >>

WOMENS_SOCCER ==
  << "sydney tomlinson",
     "emily leonard",
     "nicole castro",
     "katherine kim",
     "sophia vallas",
     "elleni bekele",
     "karla lopez",
     "berkli manigo",
     "meredith cook",
     "devoney amberg" >>

MENS_SOCCER ==
  { "luke hass",
    "scott drazan",
    "austin lee",
    "ryan wilson",
    "ariel rosso",
    "ben simon",
    "liam walsh",
    "ethan glass",
    "conal dennison",
    "matthew labrie",
    "david paine",
    "riley mccabe",
    "miles robertson" }

SOCCER_MENTOR_NUMBERS ==
  ("devoney amberg" :> "(923) 477 - 6575") @@
  ("luke haas" :> "(215) 422-2283") @@
  ("scott drazan" :> "(240) 472-1131") @@
  ("austin lee" :> "(760) 705-6663") @@
  ("ryan wilson" :> "(801) 889 - 8478") @@
  ("ariel rosso" :> "(559) 361-5246") @@
  ("ben simon" :> "(650) 223 - 1486") @@
  ("liam walsh" :> "(202) 465-6304") @@
  ("ethan glass" :> "(847) 644 - 2827") @@
  ("conal dennison" :> "(626) 890 - 8844") @@
  ("matthew labrie" :> "(925) 588 - 4049") @@
  ("david paine" :> "(310) 977 - 6205") @@
  ("riley mccabe" :> "(781) 697 - 8005") @@
  ("miles robertson" :> "(914) 486 - 1653") @@
  ("sydney tomlinson" :> "(412) 978 - 2839") @@
  ("emily leonard" :> "(324) 879 - 9009") @@
  ("nicole castro" :> "(425) 368 - 8154") @@
  ("katherine kim" :> "(818) 661 - 8360") @@
  ("sophia vallas" :> "(775) 544 - 4956") @@
  ("elleni bekele" :> "(214) 478 - 3442") @@
  ("karla lopez" :> "(124) 879 - 9932") @@
  ("berkli maningo" :> "(230) 456 - 8799") @@
  ("meredith cook" :> "(213) 354 - 0094")

RESPONSES_len ==
  ("introductions" :> 1) @@
  ("greetings" :> 2) @@
  ("good_transition" :> 2) @@
  ("bad_transition" :> 8) @@
  ("good_sciac" :> 6) @@
  ("yes_coach" :> 1) @@
  ("no_coach" :> 2) @@
  ("sciac_matchup" :> 1) @@
  ("sciac_response" :> 1) @@
  ("sport" :> 1) @@
  ("team_sport" :> 1) @@
  ("good_team" :> 1) @@
  ("good_team1" :> 1) @@
  ("yes_team" :> 2) @@
  ("no_team" :> 3) @@
  ("captain" :> 1) @@
  ("confused" :> 2) @@
  ("help" :> 1) @@
  ("woo" :> 6) @@
  ("leave" :> 6) @@
  ("individual_sport" :> 1) @@
  ("connections" :> 1) @@
  ("other_connections" :> 1) @@
  ("advice" :> 1) @@
  ("soccer" :> 2) @@
  ("ms_mentor" :> 4) @@
  ("ws_mentor" :> 4) @@
  ("amber" :> 1) @@
  ("sad_life" :> 1) @@
  ("medium_rare" :> 2) @@
  ("unrecognized_mentor" :> 1) @@
  ("more_unrecognized" :> 1) @@
  ("team_chemistry" :> 1) @@
  ("success" :> 1) @@
  ("talk_to_team" :> 1) @@
  ("coach" :> 1) @@
  ("fail" :> 1) @@
  ("ask_user" :> 1) @@
  ("other_teammates" :> 1)

default_state == "waiting"

InList(x, L) == \E i \in 1..Len(L) : L[i] = x

(***************************************************************************)
(* ChatBot._check_tags: a str value becomes a one-element list; any other  *)
(* value must be a tuple or a list.  The loop stops at the first entry     *)
(* that fails the assertion: the entries before it are already rewritten   *)
(* in the class attribute, the entries after it are not.                   *)
(***************************************************************************)
\* isinstance(tags, (tuple, list)) once a str has been put in a list
IsTagsValue(entry) == entry.type \in { "str", "list", "tuple" }

\* The entries at which the assertion fails
FailingEntries(T) == { i \in 1..Len(T) : ~IsTagsValue(T[i]) }

\* _check_tags without its assertion
_check_tags_never_raises(T) == FALSE

\* Whether _check_tags raises its AssertionError
_check_tags_raises(T) == FailingEntries(T) # {}

\* self.TAGS when _check_tags has returned or raised
_check_tags(T) ==
  [i \in 1..Len(T) |->
     IF T[i].type = "str" /\ \A j \in FailingEntries(T) : i < j
       THEN [T[i] EXCEPT !.type = "list", !.list = << T[i].str >>, !.str = ""]
       ELSE T[i]]

TagsFormatError == "AssertionError: Expected tags to be str or List[str]"

\* self.TAGS once the bot is constructed
TAGS == _check_tags(OxyCSBot_TAGS)

(***************************************************************************)
(* Strings and the regular expression of _get_tags.                        *)
(***************************************************************************)
UpperCase ==
  << "A", "B", "C", "D", "E", "F", "G", "H", "I", "J", "K", "L", "M",
     "N", "O", "P", "Q", "R", "S", "T", "U", "V", "W", "X", "Y", "Z" >>
LowerCase ==
  << "a", "b", "c", "d", "e", "f", "g", "h", "i", "j", "k", "l", "m",
     "n", "o", "p", "q", "r", "s", "t", "u", "v", "w", "x", "y", "z" >>
Digits == {"0", "1", "2", "3", "4", "5", "6", "7", "8", "9"}

\* str.lower(), one character
lower_char(c) ==
  IF InList(c, UpperCase)
    THEN LowerCase[CHOOSE i \in 1..26 : UpperCase[i] = c]
    ELSE c

\* str.lower()
lower(s) == [i \in 1..Len(s) |-> lower_char(s[i])]

\* \w of the re module
IsWordChar(c) ==
  InList(c, LowerCase) \/ InList(c, UpperCase) \/ c \in Digits \/ c = "_"

\* \b at position p of s (between s[p-1] and s[p]): a word character on
\* exactly one side; beyond either end there is no word character.
WordBoundary(s, p) ==
  LET before == p > 1 /\ p - 1 <= Len(s) /\ IsWordChar(s[p - 1])
      after == p >= 1 /\ p <= Len(s) /\ IsWordChar(s[p])
  IN before # after

\* One pattern character against one text character.  The phrase is put in
\* the pattern unescaped, so "." stands for any character but a newline;
\* the letters, the space, "'" and ":" of the lexicon stand for themselves.
\* (Of the other special characters only "(" is given a meaning, below.)
PatternCharMatches(p, c) == IF p = "." THEN c # "\n" ELSE p = c

\* re.search(r'\b' + phrase + r'\b', msg)
re_search(phrase, msg) ==
  \E i \in 1..(Len(msg) + 1) :
    /\ i + Len(phrase) - 1 <= Len(msg)
    /\ \A k \in 1..Len(phrase) : PatternCharMatches(phrase[k], msg[i + k - 1])
    /\ WordBoundary(msg, i)
    /\ WordBoundary(msg, i + Len(phrase))

\* re.search compiles the pattern first: a "(" that no ")" closes is an
\* re.error (missing ), unterminated subpattern)
re_error(phrase) ==
  \E k \in 1..Len(phrase) :
    phrase[k] = "(" /\ \A j \in (k + 1)..Len(phrase) : phrase[j] # ")"

PatternError == "re.error: missing ), unterminated subpattern"

\* The entries of T (self.TAGS) whose phrase the search finds in msg
matching_entries(T, msg) ==
  { i \in 1..Len(T) : re_search(lower(T[i].phrase), msg) }

\* The Counter after counter.update(tags) for every entry in entries: each
\* element of each tags list counts one for its tag.
\* A counter that is a set: a tag found counts one, however many phrases found it
counter_update_dedup(T, entries) ==
  LET occurrences == UNION { { << i, k >> : k \in 1..Len(T[i].list) } : i \in entries }
      keys == { T[o[1]].list[o[2]] : o \in occurrences }
  IN [t \in keys |-> 1]

\* A counter updated with the first tag of each list only
counter_update_first_tag(T, entries) ==
  LET occurrences == { << i, 1 >> : i \in { j \in entries : Len(T[j].list) > 0 } }
      keys == { T[o[1]].list[o[2]] : o \in occurrences }
  IN [t \in keys |->
        Cardinality({ o \in occurrences : T[o[1]].list[o[2]] = t })]

counter_update(T, entries) ==
  LET occurrences == UNION { { << i, k >> : k \in 1..Len(T[i].list) } : i \in entries }
      keys == { T[o[1]].list[o[2]] : o \in occurrences }
  IN [t \in keys |->
        Cardinality({ o \in occurrences : T[o[1]].list[o[2]] = t })]

\* ChatBot._get_tags on a bot whose self.TAGS is T: the Counter it returns
_get_tags(T, message) == counter_update(T, matching_entries(T, lower(message)))

\* ChatBot._get_tags raises what re.search raises: every phrase is searched
\* for, whatever the message is
_get_tags_raises(T) == \E i \in 1..Len(T) : re_error(lower(T[i].phrase))

(***************************************************************************)
(* Texts.  A text is a sequence of parts: an entry of a RESPONSES list,    *)
(* named by its key and index, or a literal or computed string.            *)
(***************************************************************************)
R(key, i) == [kind |-> "RESPONSES", key |-> key, idx |-> i]
Lit(s) == [kind |-> "literal", key |-> s, idx |-> 0]
Space == << Lit(" ") >>

\* str + str over the texts either side can be
Concat(A, B) == { a \o b : a \in A, b \in B }

\* OxyCSBot.get_random_state_response: random.randint(0, len - 1) picks any entry
get_random_state_response(key) == { << R(key, i) >> : i \in 1..RESPONSES_len[key] }

\* str.capitalize() of the two possessives
capitalize(s) == CASE s = "his" -> "His" [] s = "her" -> "Her"

\* self.mentor[:self.mentor.rfind(' ')].capitalize(), kept symbolic
FirstNameCapitalized(name) == [kind |-> "first_name_capitalized", key |-> name, idx |-> 0]

get_possesive(self) == IF self.gmentor = "m" THEN "his" ELSE "her"
get_pronoun(self) == IF self.gmentor = "m" THEN "he" ELSE "she"
get_directive(self) == IF self.gmentor = "m" THEN "him" ELSE "her"

(***************************************************************************)
(* What a producer (an on_enter or a finish method) does: the bot         *)
(* afterwards and                                                          *)
(* the text it returned, or the exception it raised.                       *)
(***************************************************************************)
Returned(self, texts) == { [self |-> self, text |-> t, error |-> "none"] : t \in texts }
Raised(self, err) == { [self |-> self, text |-> NoResponse, error |-> err] }

(***************************************************************************)
(* What a call on the bot does: the bot afterwards, the text returned or   *)
(* the exception raised, and the engine steps taken.                       *)
(***************************************************************************)
Out(self, resp, err, tr) == [self |-> self, response |-> resp, error |-> err, trace |-> tr]
Ev(e, n) == [ev |-> e, name |-> n, text |-> NoResponse]
EvText(e, n, t) == [ev |-> e, name |-> n, text |-> t]
After(prefix, outcomes) == { [o EXCEPT !.trace = prefix \o @] : o \in outcomes }

Has(tags, tag) == tag \in DOMAIN tags

\* The exceptions of the framework itself: the two assertions of go_to_state
\* and getattr not finding the method
StateNotDefined == "AssertionError: state is not defined"
DefaultStateUsage == "AssertionError: do not call go_to_state on the default state"
NoMethod == "AttributeError: no such method"

(***************************************************************************)
(* The on_enter producers of OxyCSBot.                                     *)
(***************************************************************************)
on_enter_introduction(self) ==
  Returned([self EXCEPT !.start = 0],
           Concat({ << Lit(":shocked_face_with_exploding_head:") >> },
                  Concat(get_random_state_response("introductions"),
                         get_random_state_response("greetings"))))

on_enter_medium_rare(self) == Returned(self, get_random_state_response("medium_rare"))

on_enter_sciac(self) == Returned(self, get_random_state_response("good_transition"))

on_enter_sciac_matchup(self) == Returned(self, get_random_state_response("sciac_matchup"))

on_enter_sciac_response(self) == Returned(self, get_random_state_response("sciac_response"))

on_enter_amber(self) ==
  Returned(self, Concat(get_random_state_response("amber"),
                        Concat({Space}, get_random_state_response("sciac_matchup"))))

on_enter_bad_transition(self) == Returned(self, get_random_state_response("bad_transition"))

on_enter_confused(self) == Returned(self, get_random_state_response("confused"))

on_enter_yes_coach(self) ==
  Returned(self, Concat(get_random_state_response("yes_coach"),
                        Concat({Space}, get_random_state_response("sport"))))

on_enter_no_coach(self) == Returned(self, get_random_state_response("no_coach"))

on_enter_sport(self) == Returned(self, get_random_state_response("sport"))

on_enter_soccer(self) == Returned(self, get_random_state_response("soccer"))

\* None has no rfind
on_enter_ms_mentor(self) ==
  IF self.mentor = None
    THEN Raised(self, "AttributeError: 'NoneType' object has no attribute 'rfind'")
  ELSE Returned(self, Concat({ << FirstNameCapitalized(self.mentor) >> },
                             get_random_state_response("ms_mentor")))

\* None + str is a TypeError
on_enter_ws_mentor(self) ==
  IF self.mentor = None THEN Raised(self, "TypeError")
  ELSE Returned(self, Concat({ << Lit(self.mentor) >> },
                             get_random_state_response("ws_mentor")))

\* on_enter_unrecognized_mentor that does not count the entry
on_enter_unrecognized_mentor_no_count(self) ==
  IF self.umentor = 0
    THEN Returned(self, get_random_state_response("unrecognized_mentor"))
    ELSE Returned(self, get_random_state_response("more_unrecognized"))

on_enter_unrecognized_mentor(self) ==
  LET s1 == [self EXCEPT !.umentor = @ + 1] IN
  IF s1.umentor = 1
    THEN Returned(s1, get_random_state_response("unrecognized_mentor"))
    ELSE Returned(s1, get_random_state_response("more_unrecognized"))

on_enter_team_chemistry(self) == Returned(self, get_random_state_response("team_chemistry"))

on_enter_ask_number(self) ==
  Returned(self, { << Lit("Would you like "), Lit(get_possesive(self)), Lit(" number?") >> })

\* self.SOCCER_MENTOR_NUMBERS[self.mentor] is a KeyError for a name that is no key
on_enter_give_number(self) ==
  IF self.mentor \notin DOMAIN SOCCER_MENTOR_NUMBERS THEN Raised(self, "KeyError")
  ELSE Returned(self, { << Lit(capitalize(get_possesive(self))), Lit(" number is "),
                           Lit(SOCCER_MENTOR_NUMBERS[self.mentor]), Lit(".") >> })

on_enter_other_teammates(self) == Returned(self, get_random_state_response("other_teammates"))

on_enter_team_sport(self) == Returned(self, get_random_state_response("team_sport"))

on_enter_sad_life(self) == Returned(self, get_random_state_response("bad_transition"))

on_enter_individual_sport(self) == Returned(self, get_random_state_response("individual_sport"))

on_enter_connections(self) == Returned(self, get_random_state_response("connections"))

on_enter_other_connections(self) == Returned(self, get_random_state_response("other_connections"))

on_enter_advice(self) == Returned(self, get_random_state_response("advice"))

on_enter_good_team(self) == Returned(self, get_random_state_response("good_team"))

on_enter_good_team1(self) == Returned(self, get_random_state_response("good_team1"))

\* time.sleep(1) only delays the reply
on_enter_no_team(self) == Returned(self, get_random_state_response("no_team"))

on_enter_talk_to_team(self) == Returned(self, get_random_state_response("talk_to_team"))

on_enter_yes_team(self) == Returned(self, get_random_state_response("yes_team"))

\* time.sleep(0.5) only delays the reply
on_enter_captain(self) == Returned(self, get_random_state_response("captain"))

on_enter_leave(self) == Returned(self, get_random_state_response("leave"))

(***************************************************************************)
(* The finish producers of OxyCSBot.                                       *)
(***************************************************************************)
\* finish_confused counting the conversation as finish_help does
finish_confused_counts(self) ==
  Returned([self EXCEPT !.start = @ + 1], get_random_state_response("confused"))

finish_confused(self) == Returned(self, get_random_state_response("confused"))

\* the bot has no attribute professor
finish_location(self) == Raised(self, "AttributeError: no attribute 'professor'")

finish_success(self) == Returned(self, get_random_state_response("success"))

finish_help(self) ==
  Returned([self EXCEPT !.start = @ + 1], get_random_state_response("help"))

finish_fail(self) == Returned(self, get_random_state_response("fail"))

\* finish_woo that does not count the conversation
finish_woo_no_count(self) == Returned(self, get_random_state_response("woo"))

finish_woo(self) ==
  Returned([self EXCEPT !.start = @ + 1], get_random_state_response("woo"))

finish_coach(self) == Returned(self, get_random_state_response("coach"))

finish_ask_user(self) ==
  Returned([self EXCEPT !.start = @ + 1], get_random_state_response("ask_user"))

(***************************************************************************)
(* The methods OxyCSBot defines, by name, and the call of one found by     *)
(* getattr.                                                                *)
(***************************************************************************)
OxyCSBot_methods ==
  { "on_enter_" \o STATES[i] : i \in 2..Len(STATES) }
    \cup { "respond_from_" \o STATES[i] : i \in 1..Len(STATES) }
    \cup { "finish_confused", "finish_location", "finish_success", "finish_help",
           "finish_fail", "finish_woo", "finish_coach", "finish_ask_user" }

call_on_enter(self, s) ==
  CASE s = "introduction" -> on_enter_introduction(self)
    [] s = "medium_rare" -> on_enter_medium_rare(self)
    [] s = "sciac" -> on_enter_sciac(self)
    [] s = "sciac_matchup" -> on_enter_sciac_matchup(self)
    [] s = "sciac_response" -> on_enter_sciac_response(self)
    [] s = "amber" -> on_enter_amber(self)
    [] s = "bad_transition" -> on_enter_bad_transition(self)
    [] s = "confused" -> on_enter_confused(self)
    [] s = "yes_coach" -> on_enter_yes_coach(self)
    [] s = "no_coach" -> on_enter_no_coach(self)
    [] s = "sport" -> on_enter_sport(self)
    [] s = "soccer" -> on_enter_soccer(self)
    [] s = "ms_mentor" -> on_enter_ms_mentor(self)
    [] s = "ws_mentor" -> on_enter_ws_mentor(self)
    [] s = "unrecognized_mentor" -> on_enter_unrecognized_mentor(self)
    [] s = "team_chemistry" -> on_enter_team_chemistry(self)
    [] s = "ask_number" -> on_enter_ask_number(self)
    [] s = "give_number" -> on_enter_give_number(self)
    [] s = "other_teammates" -> on_enter_other_teammates(self)
    [] s = "team_sport" -> on_enter_team_sport(self)
    [] s = "sad_life" -> on_enter_sad_life(self)
    [] s = "individual_sport" -> on_enter_individual_sport(self)
    [] s = "connections" -> on_enter_connections(self)
    [] s = "other_connections" -> on_enter_other_connections(self)
    [] s = "advice" -> on_enter_advice(self)
    [] s = "good_team" -> on_enter_good_team(self)
    [] s = "good_team1" -> on_enter_good_team1(self)
    [] s = "no_team" -> on_enter_no_team(self)
    [] s = "talk_to_team" -> on_enter_talk_to_team(self)
    [] s = "yes_team" -> on_enter_yes_team(self)
    [] s = "captain" -> on_enter_captain(self)
    [] s = "leave" -> on_enter_leave(self)

call_finish(self, manner) ==
  CASE manner = "confused" -> finish_confused(self)
    [] manner = "location" -> finish_location(self)
    [] manner = "success" -> finish_success(self)
    [] manner = "help" -> finish_help(self)
    [] manner = "fail" -> finish_fail(self)
    [] manner = "woo" -> finish_woo(self)
    [] manner = "coach" -> finish_coach(self)
    [] manner = "ask_user" -> finish_ask_user(self)

(***************************************************************************)
(* ChatBot.go_to_state and ChatBot.finish.                                 *)
(***************************************************************************)
\* go_to_state without its second assertion
go_to_state_no_default_check(self, new_state) ==
  LET name == "on_enter_" \o new_state
      entry == << Ev("go_to_state", new_state) >>
  IN
  IF ~InList(new_state, STATES)
    THEN { Out(self, NoResponse, StateNotDefined, entry) }
  ELSE IF name \notin methods
    THEN { Out(self, NoResponse, NoMethod, entry \o << Ev("getattr", name) >>) }
  ELSE { IF p.error # "none"
           THEN Out(p.self, NoResponse, p.error,
                    entry \o << Ev("getattr", name), Ev("call", name) >>)
           ELSE Out([p.self EXCEPT !.state = new_state], p.text, "none",
                    entry \o << Ev("getattr", name), Ev("call", name),
                                EvText("return", name, p.text),
                                Ev("set_state", new_state) >>)
         : p \in call_on_enter(self, new_state) }

\* go_to_state without its first assertion
go_to_state_no_declared_check(self, new_state) ==
  LET name == "on_enter_" \o new_state
      entry == << Ev("go_to_state", new_state) >>
  IN
  IF new_state = default_state
    THEN { Out(self, NoResponse, DefaultStateUsage, entry) }
  ELSE IF name \notin methods
    THEN { Out(self, NoResponse, NoMethod, entry \o << Ev("getattr", name) >>) }
  ELSE { IF p.error # "none"
           THEN Out(p.self, NoResponse, p.error,
                    entry \o << Ev("getattr", name), Ev("call", name) >>)
           ELSE Out([p.self EXCEPT !.state = new_state], p.text, "none",
                    entry \o << Ev("getattr", name), Ev("call", name),
                                EvText("return", name, p.text),
                                Ev("set_state", new_state) >>)
         : p \in call_on_enter(self, new_state) }

\* go_to_state that sets the state and then calls the producer
go_to_state_sets_state_first(self, new_state) ==
  LET name == "on_enter_" \o new_state
      entry == << Ev("go_to_state", new_state) >>
      s1 == [self EXCEPT !.state = new_state]
  IN
  IF ~InList(new_state, STATES)
    THEN { Out(self, NoResponse, StateNotDefined, entry) }
  ELSE IF new_state = default_state
    THEN { Out(self, NoResponse, DefaultStateUsage, entry) }
  ELSE IF name \notin methods
    THEN { Out(self, NoResponse, NoMethod, entry \o << Ev("getattr", name) >>) }
  ELSE { IF p.error # "none"
           THEN Out(p.self, NoResponse, p.error,
                    entry \o << Ev("getattr", name), Ev("set_state", new_state),
                                Ev("call", name) >>)
           ELSE Out(p.self, p.text, "none",
                    entry \o << Ev("getattr", name), Ev("set_state", new_state),
                                Ev("call", name), EvText("return", name, p.text) >>)
         : p \in call_on_enter(s1, new_state) }

go_to_state(self, new_state) ==
  LET name == "on_enter_" \o new_state
      entry == << Ev("go_to_state", new_state) >>
  IN
  IF ~InList(new_state, STATES)
    THEN { Out(self, NoResponse, StateNotDefined, entry) }
  ELSE IF new_state = default_state
    THEN { Out(self, NoResponse, DefaultStateUsage, entry) }
  ELSE IF name \notin methods
    THEN { Out(self, NoResponse, NoMethod, entry \o << Ev("getattr", name) >>) }
  ELSE { IF p.error # "none"
           THEN Out(p.self, NoResponse, p.error,
                    entry \o << Ev("getattr", name), Ev("call", name) >>)
           ELSE Out([p.self EXCEPT !.state = new_state], p.text, "none",
                    entry \o << Ev("getattr", name), Ev("call", name),
                                EvText("return", name, p.text),
                                Ev("set_state", new_state) >>)
         : p \in call_on_enter(self, new_state) }

\* finish that leaves the state as it is after a failed flow
finish_keeps_state_on_fail(self, manner) ==
  LET name == "finish_" \o manner
      entry == << Ev("finish", manner) >>
  IN
  IF name \notin methods
    THEN { Out(self, NoResponse, NoMethod, entry \o << Ev("getattr", name) >>) }
  ELSE { IF p.error # "none"
           THEN Out(p.self, NoResponse, p.error,
                    entry \o << Ev("getattr", name), Ev("call", name) >>)
           ELSE Out(IF manner = "fail" THEN p.self
                    ELSE [p.self EXCEPT !.state = default_state],
                    p.text, "none",
                    entry \o << Ev("getattr", name), Ev("call", name),
                                EvText("return", name, p.text),
                                Ev("set_state", default_state) >>)
         : p \in call_finish(self, manner) }

\* finish that resets the state and then calls the producer
finish_resets_first(self, manner) ==
  LET name == "finish_" \o manner
      entry == << Ev("finish", manner), Ev("set_state", default_state) >>
      s1 == [self EXCEPT !.state = default_state]
  IN
  IF name \notin methods
    THEN { Out(s1, NoResponse, NoMethod, entry \o << Ev("getattr", name) >>) }
  ELSE { IF p.error # "none"
           THEN Out(p.self, NoResponse, p.error,
                    entry \o << Ev("getattr", name), Ev("call", name) >>)
           ELSE Out(p.self, p.text, "none",
                    entry \o << Ev("getattr", name), Ev("call", name),
                                EvText("return", name, p.text) >>)
         : p \in call_finish(s1, manner) }

finish(self, manner) ==
  LET name == "finish_" \o manner
      entry == << Ev("finish", manner) >>
  IN
  IF name \notin methods
    THEN { Out(self, NoResponse, NoMethod, entry \o << Ev("getattr", name) >>) }
  ELSE { IF p.error # "none"
           THEN Out(p.self, NoResponse, p.error,
                    entry \o << Ev("getattr", name), Ev("call", name) >>)
           ELSE Out([p.self EXCEPT !.state = default_state], p.text, "none",
                    entry \o << Ev("getattr", name), Ev("call", name),
                                EvText("return", name, p.text),
                                Ev("set_state", default_state) >>)
         : p \in call_finish(self, manner) }

(***************************************************************************)
(* OxyCSBot.what_the and the respond_from handlers.                        *)
(***************************************************************************)
\* what_the that goes to 'confused' without remembering the branch targets
what_the_forgets_targets(self, cur, pos, neg, mr) == go_to_state(self, "confused")

what_the(self, cur, pos, neg, mr) ==
  go_to_state([self EXCEPT !.current = cur, !.positive = pos,
                           !.negative = neg, !.medium_rare = mr],
              "confused")

\* respond_from_waiting without its greeting branch
respond_from_waiting_no_greeting(self, message, tags) ==
  LET s1 == [self EXCEPT !.mentor = None, !.gmentor = None] IN
  IF Has(tags, "leave") THEN go_to_state(s1, "leave")
  ELSE IF Has(tags, "question") THEN finish(s1, "coach")
  ELSE IF Has(tags, "coach") THEN go_to_state(s1, "sad_life")
  ELSE IF Has(tags, "team") \/ Has(tags, "sad_life") THEN go_to_state(s1, "bad_transition")
  ELSE IF Has(tags, "thanks") \/ (Has(tags, "no") /\ s1.start > 0) THEN finish(s1, "woo")
  ELSE IF Has(tags, "yes") THEN finish(s1, "success")
  ELSE IF Has(tags, "no") /\ s1.start = 0 THEN finish(s1, "fail")
  ELSE finish(s1, "confused")

\* respond_from_waiting with its yes test before its thanks test
respond_from_waiting_yes_before_thanks(self, message, tags) ==
  LET s1 == [self EXCEPT !.mentor = None, !.gmentor = None] IN
  IF Has(tags, "leave") THEN go_to_state(s1, "leave")
  ELSE IF Has(tags, "question") THEN finish(s1, "coach")
  ELSE IF Has(tags, "coach") THEN go_to_state(s1, "sad_life")
  ELSE IF Has(tags, "team") \/ Has(tags, "sad_life") THEN go_to_state(s1, "bad_transition")
  ELSE IF Has(tags, "greeting") THEN go_to_state(s1, "introduction")
  ELSE IF Has(tags, "yes") THEN finish(s1, "success")
  ELSE IF Has(tags, "thanks") \/ (Has(tags, "no") /\ s1.start > 0) THEN finish(s1, "woo")
  ELSE IF Has(tags, "no") /\ s1.start = 0 THEN finish(s1, "fail")
  ELSE finish(s1, "confused")

\* respond_from_waiting falling back on the state "confused"
respond_from_waiting_confused_state(self, message, tags) ==
  LET s1 == [self EXCEPT !.mentor = None, !.gmentor = None] IN
  IF Has(tags, "leave") THEN go_to_state(s1, "leave")
  ELSE IF Has(tags, "question") THEN finish(s1, "coach")
  ELSE IF Has(tags, "coach") THEN go_to_state(s1, "sad_life")
  ELSE IF Has(tags, "team") \/ Has(tags, "sad_life") THEN go_to_state(s1, "bad_transition")
  ELSE IF Has(tags, "greeting") THEN go_to_state(s1, "introduction")
  ELSE IF Has(tags, "thanks") \/ (Has(tags, "no") /\ s1.start > 0) THEN finish(s1, "woo")
  ELSE IF Has(tags, "yes") THEN finish(s1, "success")
  ELSE IF Has(tags, "no") /\ s1.start = 0 THEN finish(s1, "fail")
  ELSE go_to_state(s1, "confused")

respond_from_waiting(self, message, tags) ==
  LET s1 == [self EXCEPT !.mentor = None, !.gmentor = None] IN
  IF Has(tags, "leave") THEN go_to_state(s1, "leave")
  ELSE IF Has(tags, "question") THEN finish(s1, "coach")
  ELSE IF Has(tags, "coach") THEN go_to_state(s1, "sad_life")
  ELSE IF Has(tags, "team") \/ Has(tags, "sad_life") THEN go_to_state(s1, "bad_transition")
  ELSE IF Has(tags, "greeting") THEN go_to_state(s1, "introduction")
  ELSE IF Has(tags, "thanks") \/ (Has(tags, "no") /\ s1.start > 0) THEN finish(s1, "woo")
  ELSE IF Has(tags, "yes") THEN finish(s1, "success")
  ELSE IF Has(tags, "no") /\ s1.start = 0 THEN finish(s1, "fail")
  ELSE finish(s1, "confused")

\* respond_from_introduction without its first branch
respond_from_introduction_no_bad(self, message, tags) ==
  IF Has(tags, "yes") THEN go_to_state(self, "sciac")
  ELSE go_to_state(self, "medium_rare")

respond_from_introduction(self, message, tags) ==
  IF Has(tags, "no") THEN go_to_state(self, "bad_transition")
  ELSE IF Has(tags, "yes") THEN go_to_state(self, "sciac")
  ELSE go_to_state(self, "medium_rare")

respond_from_medium_rare(self, message, tags) ==
  IF Has(tags, "yes") /\ Has(tags, "no") THEN go_to_state(self, "amber")
  ELSE IF Has(tags, "no") THEN go_to_state(self, "bad_transition")
  ELSE go_to_state(self, "sport")

\* respond_from_sciac going to a state that STATES lists only in a comment
respond_from_sciac_good_sciac(self, message, tags) ==
  IF Has(tags, "yes") /\ Has(tags, "no") THEN go_to_state(self, "amber")
  ELSE IF Has(tags, "no") THEN go_to_state(self, "bad_transition")
  ELSE go_to_state(self, "good_sciac")

respond_from_sciac(self, message, tags) ==
  IF Has(tags, "yes") /\ Has(tags, "no") THEN go_to_state(self, "amber")
  ELSE IF Has(tags, "no") THEN go_to_state(self, "bad_transition")
  ELSE go_to_state(self, "sport")

respond_from_sciac_matchup(self, message, tags) == go_to_state(self, "sciac_response")

respond_from_sciac_response(self, message, tags) ==
  IF Has(tags, "thanks") THEN finish(self, "woo")
  ELSE finish(self, "ask_user")

\* respond_from_amber going to the state its comment speaks of
respond_from_amber_matchup(self, message, tags) == go_to_state(self, "sciac_matchup")

respond_from_amber(self, message, tags) == go_to_state(self, "sciac_response")

respond_from_bad_transition(self, message, tags) ==
  IF Has(tags, "no") THEN go_to_state(self, "no_coach")
  ELSE IF Has(tags, "yes") THEN go_to_state(self, "yes_coach")
  ELSE IF Has(tags, "what_the") THEN what_the(self, "bad_transition", "yes_coach", "no_coach", None)
  ELSE go_to_state(self, "yes_coach")

\* "and self.medium_rare": None is false, a state name is true
respond_from_confused(self, message, tags) ==
  IF Has(tags, "no") THEN go_to_state(self, self.negative)
  ELSE IF Has(tags, "yes") THEN go_to_state(self, self.positive)
  ELSE IF Has(tags, "medium_rare") /\ self.medium_rare # None
    THEN go_to_state(self, self.medium_rare)
  ELSE go_to_state(self, "confused")

respond_from_yes_coach(self, message, tags) ==
  IF Has(tags, "soccer") THEN go_to_state(self, "soccer")
  ELSE IF \E i \in 1..Len(INDIVIDUAL_SPORTS) : Has(tags, INDIVIDUAL_SPORTS[i])
    THEN go_to_state(self, "individual_sport")
  ELSE go_to_state(self, "team_sport")

\* respond_from_no_coach setting self.state itself
respond_from_no_coach_sets_state(self, message, tags) ==
  { Out([p.self EXCEPT !.state = "no_team"], p.text, "none", << >>)
    : p \in on_enter_no_team(self) }

respond_from_no_coach(self, message, tags) == go_to_state(self, "no_team")

respond_from_sport(self, message, tags) ==
  IF Has(tags, "soccer") THEN go_to_state(self, "soccer")
  ELSE IF \E i \in 1..Len(INDIVIDUAL_SPORTS) : Has(tags, INDIVIDUAL_SPORTS[i])
    THEN go_to_state(self, "individual_sport")
  ELSE go_to_state(self, "team_sport")

\* the first element of a list that is a tag of the message
FirstInList(L, tags) == L[CHOOSE i \in 1..Len(L) :
                            /\ Has(tags, L[i])
                            /\ \A j \in 1..(i - 1) : ~Has(tags, L[j])]

\* respond_from_soccer that remembers the mentor but not the team
respond_from_soccer_keeps_gmentor(self, message, tags) ==
  IF \E m \in MENS_SOCCER : Has(tags, m)
    THEN UNION { go_to_state([self EXCEPT !.mentor = m], "ms_mentor")
                 : m \in { x \in MENS_SOCCER : Has(tags, x) } }
  ELSE IF \E i \in 1..Len(WOMENS_SOCCER) : Has(tags, WOMENS_SOCCER[i])
    THEN go_to_state([self EXCEPT !.mentor = FirstInList(WOMENS_SOCCER, tags)], "ws_mentor")
  ELSE go_to_state(self, "unrecognized_mentor")

\* MENS_SOCCER is a set: the loop over it meets its elements in any order,
\* so any of the mentors tagged in the message can be the first one found.
respond_from_soccer(self, message, tags) ==
  IF \E m \in MENS_SOCCER : Has(tags, m)
    THEN UNION { go_to_state([self EXCEPT !.mentor = m, !.gmentor = "m"], "ms_mentor")
                 : m \in { x \in MENS_SOCCER : Has(tags, x) } }
  ELSE IF \E i \in 1..Len(WOMENS_SOCCER) : Has(tags, WOMENS_SOCCER[i])
    THEN go_to_state([self EXCEPT !.mentor = FirstInList(WOMENS_SOCCER, tags),
                                  !.gmentor = "f"], "ws_mentor")
  ELSE go_to_state(self, "unrecognized_mentor")

respond_from_ms_mentor(self, message, tags) ==
  IF Has(tags, "yes") THEN go_to_state(self, "ask_number")
  ELSE go_to_state(self, "other_teammates")

respond_from_ws_mentor(self, message, tags) ==
  IF Has(tags, "yes") THEN go_to_state(self, "ask_number")
  ELSE go_to_state(self, "other_teammates")

respond_from_unrecognized_mentor(self, message, tags) ==
  IF \E i \in 1..Len(WOMENS_SOCCER) : Has(tags, WOMENS_SOCCER[i])
    THEN go_to_state([self EXCEPT !.mentor = FirstInList(WOMENS_SOCCER, tags),
                                  !.gmentor = "f"], "ws_mentor")
  ELSE IF \E m \in MENS_SOCCER : Has(tags, m)
    THEN UNION { go_to_state([self EXCEPT !.mentor = m, !.gmentor = "m"], "ms_mentor")
                 : m \in { x \in MENS_SOCCER : Has(tags, x) } }
  ELSE IF Has(tags, "no") \/ Has(tags, "leave_loop") THEN go_to_state(self, "team_chemistry")
  ELSE go_to_state(self, "unrecognized_mentor")

respond_from_team_chemistry(self, message, tags) ==
  IF Has(tags, "no") THEN go_to_state(self, "yes_team")
  ELSE IF Has(tags, "sad_life") THEN go_to_state(self, "sad_life")
  ELSE go_to_state(self, "good_team")

respond_from_ask_number(self, message, tags) ==
  IF Has(tags, "yes") THEN go_to_state(self, "give_number")
  ELSE finish(self, "help")

respond_from_give_number(self, message, tags) ==
  IF Has(tags, "thanks") THEN finish(self, "woo")
  ELSE finish(self, "ask_user")

respond_from_other_teammates(self, message, tags) ==
  IF Has(tags, "thanks") THEN finish(self, "woo")
  ELSE finish(self, "ask_user")

respond_from_team_sport(self, message, tags) ==
  IF Has(tags, "no") THEN go_to_state(self, "yes_team")
  ELSE IF Has(tags, "sad_life") THEN go_to_state(self, "sad_life")
  ELSE go_to_state(self, "good_team")

respond_from_sad_life(self, message, tags) ==
  IF Has(tags, "no") THEN go_to_state(self, "no_coach")
  ELSE IF Has(tags, "yes") THEN go_to_state(self, "yes_coach")
  ELSE IF Has(tags, "what_the") THEN what_the(self, "bad_transition", "yes_coach", "no_coach", None)
  ELSE go_to_state(self, "yes_coach")

respond_from_individual_sport(self, message, tags) ==
  IF Has(tags, "leave") THEN go_to_state(self, "advice")
  ELSE IF Has(tags, "yes") THEN go_to_state(self, "connections")
  ELSE go_to_state(self, "other_connections")

respond_from_connections(self, message, tags) ==
  IF Has(tags, "thanks") THEN finish(self, "woo")
  ELSE finish(self, "ask_user")

respond_from_other_connections(self, message, tags) ==
  IF Has(tags, "thanks") THEN finish(self, "woo")
  ELSE finish(self, "ask_user")

respond_from_advice(self, message, tags) ==
  IF Has(tags, "no") THEN go_to_state(self, "yes_team")
  ELSE IF Has(tags, "thanks") THEN finish(self, "woo")
  ELSE finish(self, "ask_user")

respond_from_good_team(self, message, tags) == go_to_state(self, "good_team1")

respond_from_good_team1(self, message, tags) ==
  IF Has(tags, "no") THEN go_to_state(self, "yes_team")
  ELSE IF Has(tags, "thanks") THEN finish(self, "woo")
  ELSE finish(self, "ask_user")

respond_from_no_team(self, message, tags) ==
  IF Has(tags, "leave") THEN go_to_state(self, "leave")
  ELSE go_to_state(self, "talk_to_team")

respond_from_talk_to_team(self, message, tags) ==
  IF Has(tags, "thanks") THEN finish(self, "woo")
  ELSE finish(self, "ask_user")

\* respond_from_yes_team entering its own state again
respond_from_yes_team_again(self, message, tags) == go_to_state(self, "yes_team")

respond_from_yes_team(self, message, tags) == go_to_state(self, "captain")

respond_from_captain(self, message, tags) ==
  IF Has(tags, "thanks") THEN finish(self, "woo")
  ELSE finish(self, "ask_user")

respond_from_leave(self, message, tags) ==
  IF Has(tags, "thanks") THEN finish(self, "woo")
  ELSE finish(self, "ask_user")

call_respond_from(self, message, tags) ==
  LET s == self.state IN
  CASE s = "waiting" -> respond_from_waiting(self, message, tags)
    [] s = "introduction" -> respond_from_introduction(self, message, tags)
    [] s = "medium_rare" -> respond_from_medium_rare(self, message, tags)
    [] s = "sciac" -> respond_from_sciac(self, message, tags)
    [] s = "sciac_matchup" -> respond_from_sciac_matchup(self, message, tags)
    [] s = "sciac_response" -> respond_from_sciac_response(self, message, tags)
    [] s = "amber" -> respond_from_amber(self, message, tags)
    [] s = "bad_transition" -> respond_from_bad_transition(self, message, tags)
    [] s = "confused" -> respond_from_confused(self, message, tags)
    [] s = "yes_coach" -> respond_from_yes_coach(self, message, tags)
    [] s = "no_coach" -> respond_from_no_coach(self, message, tags)
    [] s = "sport" -> respond_from_sport(self, message, tags)
    [] s = "soccer" -> respond_from_soccer(self, message, tags)
    [] s = "ms_mentor" -> respond_from_ms_mentor(self, message, tags)
    [] s = "ws_mentor" -> respond_from_ws_mentor(self, message, tags)
    [] s = "unrecognized_mentor" -> respond_from_unrecognized_mentor(self, message, tags)
    [] s = "team_chemistry" -> respond_from_team_chemistry(self, message, tags)
    [] s = "ask_number" -> respond_from_ask_number(self, message, tags)
    [] s = "give_number" -> respond_from_give_number(self, message, tags)
    [] s = "other_teammates" -> respond_from_other_teammates(self, message, tags)
    [] s = "team_sport" -> respond_from_team_sport(self, message, tags)
    [] s = "sad_life" -> respond_from_sad_life(self, message, tags)
    [] s = "individual_sport" -> respond_from_individual_sport(self, message, tags)
    [] s = "connections" -> respond_from_connections(self, message, tags)
    [] s = "other_connections" -> respond_from_other_connections(self, message, tags)
    [] s = "advice" -> respond_from_advice(self, message, tags)
    [] s = "good_team" -> respond_from_good_team(self, message, tags)
    [] s = "good_team1" -> respond_from_good_team1(self, message, tags)
    [] s = "no_team" -> respond_from_no_team(self, message, tags)
    [] s = "talk_to_team" -> respond_from_talk_to_team(self, message, tags)
    [] s = "yes_team" -> respond_from_yes_team(self, message, tags)
    [] s = "captain" -> respond_from_captain(self, message, tags)
    [] s = "leave" -> respond_from_leave(self, message, tags)

(***************************************************************************)
(* The messages sent to the bot: the empty message, messages for each tag  *)
(* a handler tests, near misses of the phrase "no", one phrase of each     *)
(* soccer mentor, and messages naming two mentors.                         *)
(***************************************************************************)
M_empty == << >>
M_hello == << "h", "e", "l", "l", "o" >>
M_Hi == << "H", "i" >>
M_no == << "n", "o" >>
M_No_thanks == << "N", "o", " ", "t", "h", "a", "n", "k", "s" >>
M_know == << "k", "n", "o", "w" >>
M_nobody == << "n", "o", "b", "o", "d", "y" >>
M_yes == << "y", "e", "s" >>
M_ok == << "o", "k" >>
M_thanks == << "t", "h", "a", "n", "k", "s" >>
M_what == << "w", "h", "a", "t" >>
M_coach == << "c", "o", "a", "c", "h" >>
M_team == << "t", "e", "a", "m" >>
M_mean == << "m", "e", "a", "n" >>
M_rude == << "r", "u", "d", "e" >>
M_leave == << "l", "e", "a", "v", "e" >>
M_uh == << "u", "h" >>
M_fine == << "f", "i", "n", "e" >>
M_not_good == << "n", "o", "t", " ", "g", "o", "o", "d" >>
M_soccer == << "s", "o", "c", "c", "e", "r" >>
M_golf == << "g", "o", "l", "f" >>
M_forgot == << "f", "o", "r", "g", "o", "t" >>
M_luke == << "l", "u", "k", "e" >>
M_scott == << "s", "c", "o", "t", "t" >>
M_austin == << "a", "u", "s", "t", "i", "n" >>
M_ryan == << "r", "y", "a", "n" >>
M_ariel == << "a", "r", "i", "e", "l" >>
M_ben == << "b", "e", "n" >>
M_liam == << "l", "i", "a", "m" >>
M_ethan == << "e", "t", "h", "a", "n" >>
M_conal == << "c", "o", "n", "a", "l" >>
M_matt == << "m", "a", "t", "t" >>
M_david == << "d", "a", "v", "i", "d" >>
M_riley == << "r", "i", "l", "e", "y" >>
M_miles == << "m", "i", "l", "e", "s" >>
M_sydney == << "s", "y", "d", "n", "e", "y" >>
M_emily == << "e", "m", "i", "l", "y" >>
M_nicole == << "n", "i", "c", "o", "l", "e" >>
M_kat == << "k", "a", "t" >>
M_sophia == << "s", "o", "p", "h", "i", "a" >>
M_elleni == << "e", "l", "l", "e", "n", "i" >>
M_karla == << "k", "a", "r", "l", "a" >>
M_berkli == << "b", "e", "r", "k", "l", "i" >>
M_meredith == << "m", "e", "r", "e", "d", "i", "t", "h" >>
M_devoney == << "d", "e", "v", "o", "n", "e", "y" >>
M_luke_scott == << "l", "u", "k", "e", " ", "s", "c", "o", "t", "t" >>
M_sydney_luke == << "s", "y", "d", "n", "e", "y", " ", "l", "u", "k", "e" >>
M_emily_sydney == << "e", "m", "i", "l", "y", " ", "s", "y", "d", "n", "e", "y" >>

Messages ==
  { M_empty, M_hello, M_Hi, M_no, M_No_thanks, M_know,
    M_nobody, M_yes, M_ok, M_thanks, M_what, M_coach,
    M_team, M_mean, M_rude, M_leave, M_uh, M_fine,
    M_not_good, M_soccer, M_golf, M_forgot, M_luke, M_scott,
    M_austin, M_ryan, M_ariel, M_ben, M_liam, M_ethan,
    M_conal, M_matt, M_david, M_riley, M_miles, M_sydney,
    M_emily, M_nicole, M_kat, M_sophia, M_elleni, M_karla,
    M_berkli, M_meredith, M_devoney, M_luke_scott, M_sydney_luke, M_emily_sydney }

\* _get_tags of each message, computed once
tags_of == [m \in Messages |-> _get_tags(TAGS, m)]

\* respond that extracts the tags before it looks the handler up
respond_tags_first(self, message) ==
  LET name == "respond_from_" \o self.state IN
  IF name \notin methods
    THEN { Out(self, NoResponse, NoMethod, << Ev("_get_tags", ""), Ev("getattr", name) >>) }
  ELSE After(<< Ev("_get_tags", ""), Ev("getattr", name), Ev("call", name) >>,
             call_respond_from(self, message, tags_of[message]))

(***************************************************************************)
(* ChatBot.respond.                                                        *)
(***************************************************************************)
respond(self, message) ==
  LET name == "respond_from_" \o self.state IN
  IF name \notin methods
    THEN { Out(self, NoResponse, NoMethod, << Ev("getattr", name) >>) }
  ELSE After(<< Ev("getattr", name), Ev("_get_tags", ""), Ev("call", name) >>,
             call_respond_from(self, message, tags_of[message]))

(***************************************************************************)
(* The bot as a record, and the calls made on it.                          *)
(***************************************************************************)
Self ==
  [state |-> state, mentor |-> mentor, gmentor |-> gmentor, start |-> start,
   umentor |-> umentor, current |-> current, positive |-> positive,
   negative |-> negative, medium_rare |-> medium_rare]

WithinBounds(o) == o.self.start <= MaxStart /\ o.self.umentor <= MaxUmentor

\* Attributes kept in the class: what a call writes would show in every bot
shared_attributes(o, bystander) ==
  [bystander EXCEPT !.mentor = o.self.mentor, !.gmentor = o.self.gmentor,
                    !.start = o.self.start, !.umentor = o.self.umentor,
                    !.positive = o.self.positive, !.negative = o.self.negative]

\* The attributes of another bot after a call with outcome o on this one:
\* __init__ and the handlers assign to self.<name> only, and the dicts,
\* lists and sets of __init__ are made anew for each bot
own_attributes(o, bystander) == bystander

Commit(o, op, name) ==
  /\ state' = o.self.state
  /\ mentor' = o.self.mentor
  /\ gmentor' = o.self.gmentor
  /\ start' = o.self.start
  /\ umentor' = o.self.umentor
  /\ current' = o.self.current
  /\ positive' = o.self.positive
  /\ negative' = o.self.negative
  /\ medium_rare' = o.self.medium_rare
  /\ response' = o.response
  /\ error' = o.error
  /\ trace' = o.trace
  /\ call' = [op |-> op, name |-> name]
  /\ other' = own_attributes(o, other)
  /\ UNCHANGED << methods, lexicon >>

\* OxyCSBot.__init__ and ChatBot.__init__
Init ==
  /\ state = default_state
  /\ mentor = None
  /\ gmentor = None
  /\ start = 0
  /\ umentor = 0
  /\ current = None
  /\ positive = None
  /\ negative = None
  /\ medium_rare = None
  /\ methods = OxyCSBot_methods
  /\ call = [op |-> "__init__", name |-> ""]
  /\ response = NoResponse
  /\ error = "none"
  /\ trace = << >>
  /\ lexicon = << >>
  /\ empty_calls = 0
  /\ other = None

\* bot.respond(message), as the chat loop calls it
Respond(message) ==
  /\ \E o \in respond(Self, message) : WithinBounds(o) /\ Commit(o, "respond", "")
  /\ empty_calls' = IF message = << >> /\ state = default_state
                      THEN IF empty_calls < MaxEmptyCalls THEN empty_calls + 1
                                                         ELSE empty_calls
                      ELSE 0

Next == \E message \in Messages : Respond(message)

Spec == Init /\ [][Next]_vars

\* The chat loop reads the next message as long as the user sends one.
FairSpec == Spec /\ WF_vars(Next)

(***************************************************************************)
(* The framework called directly.  go_to_state and finish are public       *)
(* methods of ChatBot, and a subclass may be constructed while some of its *)
(* handlers are not written yet (_check_states only prints a warning).     *)
(***************************************************************************)
\* bot.go_to_state(s)
GoToState(s) ==
  /\ \E o \in go_to_state(Self, s) : WithinBounds(o) /\ Commit(o, "go_to_state", s)
  /\ empty_calls' = 0

\* bot.finish(manner)
Finish(manner) ==
  /\ \E o \in finish(Self, manner) : WithinBounds(o) /\ Commit(o, "finish", manner)
  /\ empty_calls' = 0

\* Names that are no member of STATES: a state commented out of the list, and None
UndeclaredStates == { "greeting", None }
StateArguments == { STATES[i] : i \in 1..Len(STATES) } \cup UndeclaredStates

\* The manners with a finish method, and one without
Manners ==
  { "confused", "location", "success", "help", "fail", "woo", "coach", "ask_user",
    "almost_done" }

\* Handlers a subclass in progress does not define yet
UnwrittenMethods == { "respond_from_leave", "on_enter_captain", "finish_fail" }
Configurations == { OxyCSBot_methods, OxyCSBot_methods \ UnwrittenMethods }

EngineMessages == { M_empty, M_hello, M_no, M_thanks, M_luke }

EngineInit ==
  /\ state = default_state
  /\ mentor = None
  /\ gmentor = None
  /\ start = 0
  /\ umentor = 0
  /\ current = None
  /\ positive = None
  /\ negative = None
  /\ medium_rare = None
  /\ methods \in Configurations
  /\ call = [op |-> "__init__", name |-> ""]
  /\ response = NoResponse
  /\ error = "none"
  /\ trace = << >>
  /\ lexicon = << >>
  /\ empty_calls = 0
  /\ other = None

EngineNext ==
  \/ \E message \in EngineMessages : Respond(message)
  \/ \E s \in StateArguments : GoToState(s)
  \/ \E manner \in Manners : Finish(manner)

EngineSpec == EngineInit /\ [][EngineNext]_vars

(***************************************************************************)
(* Two bots of the class OxyCSBot in one process, each in a conversation   *)
(* of its own; the calls on them come in any order.                        *)
(***************************************************************************)
\* The attributes OxyCSBot.__init__ gives a bot
NewSession ==
  [state |-> default_state, mentor |-> None, gmentor |-> None, start |-> 0,
   umentor |-> 0, current |-> None, positive |-> None, negative |-> None,
   medium_rare |-> None]

SessionMessages == { M_hello, M_no, M_yes, M_coach, M_thanks }

SessionsInit ==
  /\ state = default_state
  /\ mentor = None
  /\ gmentor = None
  /\ start = 0
  /\ umentor = 0
  /\ current = None
  /\ positive = None
  /\ negative = None
  /\ medium_rare = None
  /\ methods = OxyCSBot_methods
  /\ call = [op |-> "__init__", name |-> ""]
  /\ response = NoResponse
  /\ error = "none"
  /\ trace = << >>
  /\ lexicon = << >>
  /\ empty_calls = 0
  /\ other = NewSession

\* respond(message) on the second bot
RespondOther(message) ==
  \E o \in respond(other, message) :
    /\ WithinBounds(o)
    /\ other' = o.self
    /\ LET mine == own_attributes(o, Self) IN
         /\ state' = mine.state
         /\ mentor' = mine.mentor
         /\ gmentor' = mine.gmentor
         /\ start' = mine.start
         /\ umentor' = mine.umentor
         /\ current' = mine.current
         /\ positive' = mine.positive
         /\ negative' = mine.negative
         /\ medium_rare' = mine.medium_rare
    /\ UNCHANGED << methods, call, response, error, trace, lexicon, empty_calls >>

SessionsNext ==
  \/ \E message \in SessionMessages : Respond(message)
  \/ \E message \in SessionMessages : RespondOther(message)

SessionsSpec == SessionsInit /\ [][SessionsNext]_vars

(***************************************************************************)
(* The construction of a bot and the lexicon of the framework.  TAGS is a  *)
(* class attribute a subclass supplies: the subclasses here have the       *)
(* STATES of OxyCSBot, all or all but some of its handlers, and a short    *)
(* lexicon.  A lexicon is a sequence of entries, in the order of the dict; *)
(* its phrases are distinct, being the keys of a dict.                     *)
(***************************************************************************)
P_no == << "n", "o" >>
P_nope == << "n", "o", "p", "e" >>
P_okay == << "o", "k", "a", "y" >>
P_sure == << "s", "u", "r", "e" >>
P_sure_thing == << "s", "u", "r", "e", " ", "t", "h", "i", "n", "g" >>
P_Hi == << "H", "i" >>
P_yes == << "y", "e", "s" >>
P_hmm == << "h", "m", "m" >>
P_o_k == << "o", ".", "k" >>
P_frown == << ":", "(" >>
P_maybe == << "m", "a", "y", "b", "e" >>
P_nah == << "n", "a", "h" >>

\* Entries of OxyCSBot.TAGS and entries another subclass may write: a phrase
\* with a capital, a tuple, an empty list, phrases with "." and "(", and
\* values that are no str, list or tuple
LexiconEntries ==
  { StrEntry(P_no, "no"), StrEntry(P_nope, "no"),
    ListEntry(P_okay, << "medium_rare", "thanks", "yes" >>),
    StrEntry(P_sure, "yes"), StrEntry(P_sure_thing, "thanks"),
    StrEntry(P_Hi, "greeting"), TupleEntry(P_yes, << "yes" >>),
    ListEntry(P_hmm, << >>),
    StrEntry(P_o_k, "yes"), StrEntry(P_frown, "sad_life"),
    OtherEntry(P_maybe, "NoneType"), OtherEntry(P_nah, "dict") }

Lexicons ==
  { L \in UNION { [1..n -> LexiconEntries] : n \in 0..MaxLexicon } :
      \A i, j \in 1..Len(L) : i # j => L[i].phrase # L[j].phrase }

M_okay == << "o", "k", "a", "y" >>
M_no_nope == << "n", "o", " ", "n", "o", "p", "e" >>
M_no_no == << "n", "o", " ", "n", "o" >>
M_sure_thing == << "s", "u", "r", "e", " ", "t", "h", "i", "n", "g" >>
M_ook == << "o", "o", "k" >>
M_HI == << "H", "I" >>

LexiconMessages ==
  { M_empty, M_no, M_No_thanks, M_know, M_nobody, M_okay, M_no_nope, M_no_no,
    M_sure_thing, M_ook, M_HI }

\* The class is written and no bot is constructed yet
LexiconInit ==
  /\ lexicon \in Lexicons
  /\ state = None
  /\ mentor = None
  /\ gmentor = None
  /\ start = 0
  /\ umentor = 0
  /\ current = None
  /\ positive = None
  /\ negative = None
  /\ medium_rare = None
  /\ methods \in Configurations
  /\ call = [op |-> "class", name |-> << >>]
  /\ response = NoResponse
  /\ error = "none"
  /\ trace = << >>
  /\ empty_calls = 0
  /\ other = None

\* The handlers _check_states looks for, in the order of its two loops: for
\* each state on_enter (placed where on_enter of the default state would
\* be, and kept out below) and respond_from
HandlersLookedFor ==
  [k \in 1..(2 * Len(STATES)) |->
     IF k % 2 = 1 THEN "on_enter_" \o STATES[(k + 1) \div 2]
                  ELSE "respond_from_" \o STATES[k \div 2]]

\* _check_states that wants an on_enter of the default state as well
_check_states_default_too(M) ==
  LET Missing(name) == name \notin M
      names == SelectSeq(HandlersLookedFor, Missing)
  IN [k \in 1..Len(names) |-> Ev("warning", names[k])]

\* ChatBot._check_states on a bot with the methods M: the warnings printed
_check_states(M) ==
  LET Missing(name) == name # "on_enter_" \o default_state /\ name \notin M
      names == SelectSeq(HandlersLookedFor, Missing)
  IN [k \in 1..Len(names) |-> Ev("warning", names[k])]

\* There is a bot: __init__ was called and returned
Constructed == call.op # "class" /\ ~(call.op = "__init__" /\ error # "none")

\* ChatBot.__init__: the state is set, _check_states prints its warnings,
\* and _check_tags is the last statement, so the constructor raises what
\* _check_tags raises and then there is no bot
Construct ==
  /\ call.op = "class"
  /\ lexicon' = _check_tags(lexicon)
  /\ IF _check_tags_raises(lexicon)
       THEN error' = TagsFormatError /\ state' = state
       ELSE error' = "none" /\ state' = default_state
  /\ call' = [op |-> "__init__", name |-> << >>]
  /\ response' = NoResponse
  /\ trace' = _check_states(methods)
  /\ UNCHANGED << mentor, gmentor, start, umentor, current, positive, negative,
                  medium_rare, methods, empty_calls, other >>

\* bot._get_tags(message)
GetTags(message) ==
  /\ Constructed
  /\ IF _get_tags_raises(lexicon)
       THEN error' = PatternError /\ response' = NoResponse
       ELSE error' = "none" /\ response' = _get_tags(lexicon, message)
  /\ call' = [op |-> "_get_tags", name |-> message]
  /\ trace' = << >>
  /\ UNCHANGED << state, mentor, gmentor, start, umentor, current, positive,
                  negative, medium_rare, methods, lexicon, empty_calls, other >>

LexiconNext ==
  \/ Construct
  \/ \E message \in LexiconMessages : GetTags(message)

LexiconSpec == LexiconInit /\ [][LexiconNext]_vars

(***************************************************************************)
(* Properties.                                                             *)
(***************************************************************************)
HasEvent(tr, e) == \E k \in 1..Len(tr) : tr[k] = e
EventNames(tr, kind) == { tr[k].name : k \in { j \in 1..Len(tr) : tr[j].ev = kind } }
CountEvents(tr, kind) == Cardinality({ k \in 1..Len(tr) : tr[k].ev = kind })

\* The session memory of OxyCSBot, everything of the bot but self.state
memory == << mentor, gmentor, start, umentor, current, positive, negative, medium_rare >>

DeclaredNonDefault(s) == InList(s, STATES) /\ s # default_state

\* A counter of the model stands at its bound, where the model takes no
\* call that would raise it.
AtBound == start >= MaxStart \/ umentor >= MaxUmentor

\* C1: for every declared non-default state s, wherever go_to_state(s) is
\* called, it calls on_enter_s exactly once, leaves self.state = s and
\* returns the text on_enter_s returned.
C1_GoToStateAlwaysEnters ==
  \A s \in EventNames(trace, "go_to_state") :
    DeclaredNonDefault(s) =>
      /\ error = "none"
      /\ state = s
      /\ Cardinality({ k \in 1..Len(trace) : trace[k] = Ev("call", "on_enter_" \o s) }) = 1
      /\ HasEvent(trace, EvText("return", "on_enter_" \o s, response))

\* C2 as claimed: finish(manner) resets self.state to the default state and
\* returns the finish producer's text, whatever the state before and
\* whatever the manner.
C2_FinishAlwaysResets ==
  \A m \in EventNames(trace, "finish") :
    /\ error = "none"
    /\ state = default_state
    /\ HasEvent(trace, EvText("return", "finish_" \o m, response))

\* C2 as amended: from any state, a call of finish(manner) whose manner has
\* a finish method that returns (every finish method but finish_location)
\* resets self.state to the default state and returns that method's text;
\* with no finish method for the manner, or with finish_location, the call
\* raises and self.state keeps its value.
C2_FinishResetsWhenProducerReturns ==
  [][\A m \in Manners :
       HasEvent(trace', Ev("finish", m)) =>
         IF ("finish_" \o m) \in methods /\ m # "location"
           THEN /\ error' = "none"
                /\ state' = default_state
                /\ response' \in { p.text : p \in call_finish(Self, m) }
           ELSE /\ error' # "none"
                /\ response' = NoResponse
                /\ state' = state]_vars

\* finish called from a state that is not the default state
C2_Witness ==
  /\ HasEvent(trace, Ev("call", "respond_from_captain"))
  /\ HasEvent(trace, Ev("finish", "woo"))
  /\ state = default_state
  /\ error = "none"

\* C3: self.state changes only inside go_to_state and finish: it becomes a
\* state other than the default only by go_to_state of that state, and the
\* default state only by finish.
C3_StateChangesOnlyInEngine ==
  [][state' # state =>
       IF state' = default_state
         THEN /\ CountEvents(trace', "finish") = 1
              /\ HasEvent(trace', Ev("set_state", default_state))
         ELSE /\ HasEvent(trace', Ev("go_to_state", state'))
              /\ HasEvent(trace', Ev("set_state", state'))]_vars

\* a handler has moved the bot on to another state
C3_Witness ==
  /\ state = "no_team"
  /\ call.op = "respond"
  /\ error = "none"
  /\ response # NoResponse

\* C4: every respond call calls exactly one of go_to_state and finish and
\* returns the text of that call.
C4_RespondCallsOneAndReturns ==
  call.op = "respond" =>
    /\ CountEvents(trace, "go_to_state") + CountEvents(trace, "finish") = 1
    /\ error = "none"
    /\ \E k \in 1..Len(trace) : trace[k].ev = "return" /\ trace[k].text = response

\* C5 as claimed: whenever the bot is in a state other than the default, a
\* later respond call brings it back to the default state.
C5_EveryFlowReturnsToIdle ==
  (state # default_state) ~> (state = default_state \/ AtBound)

\* The least number of messages that take a state to the call of finish
FlowRank ==
  ("waiting" :> 0) @@
  ("sciac_response" :> 1) @@ ("give_number" :> 1) @@ ("other_teammates" :> 1) @@
  ("connections" :> 1) @@ ("other_connections" :> 1) @@ ("advice" :> 1) @@
  ("good_team1" :> 1) @@ ("talk_to_team" :> 1) @@ ("captain" :> 1) @@
  ("leave" :> 1) @@ ("ask_number" :> 1) @@
  ("amber" :> 2) @@ ("sciac_matchup" :> 2) @@ ("ms_mentor" :> 2) @@
  ("ws_mentor" :> 2) @@ ("individual_sport" :> 2) @@ ("good_team" :> 2) @@
  ("no_team" :> 2) @@ ("yes_team" :> 2) @@
  ("medium_rare" :> 3) @@ ("sciac" :> 3) @@ ("no_coach" :> 3) @@
  ("team_sport" :> 3) @@ ("team_chemistry" :> 3) @@ ("soccer" :> 3) @@
  ("yes_coach" :> 3) @@ ("sport" :> 3) @@ ("unrecognized_mentor" :> 3) @@
  ("introduction" :> 4) @@ ("bad_transition" :> 4) @@ ("sad_life" :> 4) @@
  ("confused" :> 4)

\* C5 as amended: a flow can always return to idle: in every state other
\* than the default some message makes respond return with the bot one
\* step nearer to finish, so that at most four messages bring the bot back
\* to the default state.  Other messages keep it away for ever.
C5_SomeMessageLeadsTowardsIdle ==
  state # default_state =>
    \E message \in Messages :
      \E o \in respond(Self, message) :
        /\ o.error = "none"
        /\ FlowRank[o.self.state] < FlowRank[state]

\* respond_from_confused has entered "confused" again
C5_Witness ==
  /\ state = "confused"
  /\ HasEvent(trace, Ev("call", "respond_from_confused"))
  /\ HasEvent(trace, Ev("set_state", "confused"))

\* The errors of a broken dialogue graph
UsageErrors == { StateNotDefined, DefaultStateUsage, NoMethod }

\* C6: whatever messages a fresh OxyCSBot gets, its state is a declared
\* state with a respond_from method, every go_to_state names a declared
\* state other than the default with an on_enter method, every finish names
\* a manner with a finish method, and no call ends in a usage error.
C6_NoUnhandledState ==
  /\ InList(state, STATES)
  /\ ("respond_from_" \o state) \in methods
  /\ \A s \in EventNames(trace, "go_to_state") :
       DeclaredNonDefault(s) /\ ("on_enter_" \o s) \in methods
  /\ \A m \in EventNames(trace, "finish") : ("finish_" \o m) \in methods
  /\ error \notin UsageErrors

\* respond_from_confused has gone to the state remembered in self.negative
C6_Witness ==
  /\ HasEvent(trace, Ev("call", "respond_from_confused"))
  /\ HasEvent(trace, Ev("go_to_state", negative))
  /\ state = "no_coach"

\* C7: go_to_state(default state) raises the usage error, calls no on_enter
\* method and leaves the state (and the rest of the bot) as it was.
C7_GoToDefaultStateIsUsageError ==
  [][GoToState(default_state) =>
       /\ error' = DefaultStateUsage
       /\ response' = NoResponse
       /\ trace' = << Ev("go_to_state", default_state) >>
       /\ state' = state
       /\ memory' = memory]_vars

\* go_to_state(default state) was called in another state
C7_Witness ==
  /\ call = [op |-> "go_to_state", name |-> default_state]
  /\ error = DefaultStateUsage
  /\ state = "captain"

\* C8: go_to_state of a state that STATES does not list fails before any
\* on_enter method is looked up or called and leaves the state as it was.
C8_GoToUndeclaredStateFails ==
  [][\A s \in UndeclaredStates :
       GoToState(s) =>
         /\ error' = StateNotDefined
         /\ response' = NoResponse
         /\ trace' = << Ev("go_to_state", s) >>
         /\ state' = state
         /\ memory' = memory]_vars

\* go_to_state("greeting") was called
C8_Witness ==
  /\ call = [op |-> "go_to_state", name |-> "greeting"]
  /\ error = StateNotDefined
  /\ state = "leave"

\* C9: respond in a state without a respond_from method fails at the lookup:
\* no tags are extracted, no handler runs, and the state and the session
\* memory stay as they were.
C9_RespondWithoutHandlerFails ==
  [][\A message \in EngineMessages :
       (("respond_from_" \o state) \notin methods /\ Respond(message)) =>
         /\ error' = NoMethod
         /\ response' = NoResponse
         /\ trace' = << Ev("getattr", "respond_from_" \o state) >>
         /\ state' = state
         /\ memory' = memory]_vars

\* respond was called in "leave", whose respond_from method is not written
C9_Witness ==
  /\ call.op = "respond"
  /\ state = "leave"
  /\ "respond_from_leave" \notin methods
  /\ error = NoMethod

\* The messages whose only tag is "greeting"
GreetingOnly == { message \in Messages : DOMAIN tags_of[message] = {"greeting"} }

\* C10: in the default state a message whose only tag is "greeting" takes
\* the bot to "introduction", and respond returns what on_enter_introduction
\* returned.
C10_GreetingEntersIntroduction ==
  [][\A message \in GreetingOnly :
       (state = default_state /\ Respond(message)) =>
         /\ state' = "introduction"
         /\ error' = "none"
         /\ response' \in { p.text : p \in on_enter_introduction(Self) }
         /\ HasEvent(trace', EvText("return", "on_enter_introduction", response'))]_vars

\* a greeting was answered from the default state
C10_Witness ==
  /\ state = "introduction"
  /\ call.op = "respond"
  /\ HasEvent(trace, Ev("call", "respond_from_waiting"))
  /\ HasEvent(trace, Ev("go_to_state", "introduction"))
  /\ response # NoResponse

\* The messages with the tag "no" and without the tag "yes"
NoNotYes ==
  { message \in Messages : Has(tags_of[message], "no") /\ ~Has(tags_of[message], "yes") }

\* C11: when a greeting has taken the bot to "introduction", a message with
\* the tag "no" and without the tag "yes" takes it to "bad_transition", and
\* neither to "sciac" nor to "medium_rare".
C11_NoAfterGreetingEntersBadTransition ==
  [][\A message \in NoNotYes :
       (/\ state = "introduction"
        /\ HasEvent(trace, Ev("set_state", "introduction"))
        /\ Respond(message)) =>
         /\ state' = "bad_transition"
         /\ state' \notin { "sciac", "medium_rare" }
         /\ error' = "none"
         /\ HasEvent(trace', Ev("set_state", "bad_transition"))]_vars

\* the introduction was answered with a no
C11_Witness ==
  /\ state = "bad_transition"
  /\ call.op = "respond"
  /\ HasEvent(trace, Ev("call", "respond_from_introduction"))
  /\ HasEvent(trace, Ev("set_state", "bad_transition"))

\* The messages in which no phrase of the lexicon is found
Untagged == { message \in Messages : DOMAIN tags_of[message] = {} }

\* C12: in the default state a message without tags is answered through
\* finish('confused'): respond returns what finish_confused returned, the
\* state is the default state afterwards and go_to_state is not called.
C12_UntaggedMessageFinishesConfused ==
  [][\A message \in Untagged :
       (state = default_state /\ Respond(message)) =>
         /\ state' = default_state
         /\ error' = "none"
         /\ response' \in { p.text : p \in finish_confused(Self) }
         /\ HasEvent(trace', Ev("finish", "confused"))
         /\ HasEvent(trace', EvText("return", "finish_confused", response'))
         /\ CountEvents(trace', "go_to_state") = 0]_vars

\* the last call of respond fell back on finish('confused') in the default state
FellBack(tr) ==
  /\ HasEvent(tr, Ev("call", "respond_from_waiting"))
  /\ HasEvent(tr, Ev("call", "finish_confused"))
  /\ CountEvents(tr, "go_to_state") = 0
  /\ CountEvents(tr, "finish") = 1

\* a message without tags was answered from the default state
C12_Witness ==
  /\ state = default_state
  /\ call.op = "respond"
  /\ FellBack(trace)
  /\ response \in { p.text : p \in finish_confused(Self) }

\* The session memory C13 names
session == << start, umentor, mentor, gmentor, positive, negative >>

\* C13: respond('') called in the default state right after respond('') in
\* the default state: both calls go through finish('confused'), and the
\* state and the session memory after the second call are those after the
\* first.
C13_EmptyMessageTwiceSameFallback ==
  [][(empty_calls = 1 /\ Respond(M_empty)) =>
       /\ FellBack(trace) /\ error = "none"
       /\ FellBack(trace') /\ error' = "none"
       /\ state = default_state
       /\ state' = state
       /\ session' = session]_vars

\* the empty message was answered twice in a row from the default state
C13_Witness ==
  /\ empty_calls = 2
  /\ state = default_state
  /\ call.op = "respond"
  /\ FellBack(trace)

(***************************************************************************)
(* Tag extraction, under LexiconSpec.                                      *)
(***************************************************************************)
\* The text of phrase stands in msg at position i, character for character
OccursAt(phrase, msg, i) ==
  /\ i + Len(phrase) - 1 <= Len(msg)
  /\ \A k \in 1..Len(phrase) : phrase[k] = msg[i + k - 1]

\* phrase occurs in msg with a word boundary on both sides
OccursAsWords(phrase, msg) ==
  \E i \in 1..(Len(msg) + 1) :
    /\ OccursAt(phrase, msg, i)
    /\ WordBoundary(msg, i)
    /\ WordBoundary(msg, i + Len(phrase))

\* The entries whose lower-cased phrase occurs so in the lower-cased message
OccurringEntries(T, message) ==
  { i \in 1..Len(T) : OccursAsWords(lower(T[i].phrase), lower(message)) }

\* The characters with a meaning of their own in a regular expression
SpecialCharacters ==
  { ".", "^", "$", "*", "+", "?", "{", "}", "[", "]", "|", "(", ")", "\\" }

HasSpecialCharacter(phrase) == \E k \in 1..Len(phrase) : phrase[k] \in SpecialCharacters

Count(c, t) == IF t \in DOMAIN c THEN c[t] ELSE 0

TagsListed(T) == UNION { { T[i].list[k] : k \in 1..Len(T[i].list) } : i \in 1..Len(T) }

\* C14: extraction is case-insensitive and matches at word boundaries only:
\* for every message and lexicon, the tags counted are those of the phrases
\* that, lower-cased, occur in the lower-cased message with a word boundary
\* on both sides.
C14_TagsCountedIffPhraseOccursAsWords ==
  call.op = "_get_tags" =>
    /\ error = "none"
    /\ response = counter_update(lexicon, OccurringEntries(lexicon, call.name))

\* C15: the count of a tag in the Counter is the number of entries whose
\* phrase matches the message and whose list names the tag, whatever the
\* number of places the phrase is found at and whatever the other phrases.
C15_CountIsNumberOfMatchingPhrases ==
  (call.op = "_get_tags" /\ error = "none") =>
    /\ DOMAIN response \subseteq TagsListed(lexicon)
    /\ \A t \in TagsListed(lexicon) :
         Count(response, t) =
           Cardinality({ i \in 1..Len(lexicon) :
                           /\ re_search(lower(lexicon[i].phrase), lower(call.name))
                           /\ InList(t, lexicon[i].list) })

\* two phrases with the tag "no" were found in one message
C15_Witness ==
  /\ call.op = "_get_tags"
  /\ error = "none"
  /\ call.name = M_no_nope
  /\ Count(response, "no") = 2

\* T without its entry i
Without(T, i) == SubSeq(T, 1, i - 1) \o SubSeq(T, i + 1, Len(T))

\* C16: a phrase that matches adds exactly one to the count of every tag of
\* its list: with the entry the count of each of its tags is one more than
\* without it.
C16_TagsOfAPhraseCountTogether ==
  (call.op = "_get_tags" /\ error = "none") =>
    \A i \in matching_entries(lexicon, lower(call.name)) :
      \A k \in 1..Len(lexicon[i].list) :
        Count(response, lexicon[i].list[k]) =
          Count(_get_tags(Without(lexicon, i), call.name), lexicon[i].list[k]) + 1

\* 'okay' was found and its three tags count one each
C16_Witness ==
  /\ call.op = "_get_tags"
  /\ error = "none"
  /\ call.name = M_okay
  /\ \E i \in 1..Len(lexicon) : lexicon[i].phrase = P_okay
  /\ Count(response, "medium_rare") = 1
  /\ Count(response, "thanks") = 1
  /\ Count(response, "yes") = 1

\* C17: for a message in which no phrase of the lexicon occurs as whole
\* words, the empty message included, _get_tags returns the empty Counter.
C17_NoPhraseGivesEmptyCounter ==
  (call.op = "_get_tags" /\ OccurringEntries(lexicon, call.name) = {}) =>
    /\ error = "none"
    /\ DOMAIN response = {}

\* C18: a phrase with special characters is matched as its literal text:
\* extraction does not fail on it and counts it only where that text occurs
\* at word boundaries.
C18_SpecialCharactersAreLiteral ==
  (/\ call.op = "_get_tags"
   /\ \E i \in 1..Len(lexicon) : HasSpecialCharacter(lexicon[i].phrase)) =>
    /\ error = "none"
    /\ \A i \in 1..Len(lexicon) :
         HasSpecialCharacter(lexicon[i].phrase) =>
           (i \in matching_entries(lexicon, lower(call.name))
              <=> i \in OccurringEntries(lexicon, call.name))

(***************************************************************************)
(* Validation of the lexicon, under LexiconSpec.                           *)
(***************************************************************************)
\* C19: once a bot is constructed every value of its lexicon is a list (or
\* tuple) of tags that is not empty: a value written as one str is a
\* one-element list now, and no empty list got through _check_tags.
C19_EntriesAreNonEmptyLists ==
  Constructed =>
    \A i \in 1..Len(lexicon) :
      /\ lexicon[i].type \in { "list", "tuple" }
      /\ Len(lexicon[i].list) > 0

\* The classes whose lexicon has a value that is no str, list or tuple
Malformed(T) == \E i \in 1..Len(T) : T[i].type \notin { "str", "list", "tuple" }

RequiredHandlers ==
  { "on_enter_" \o STATES[i] : i \in { j \in 1..Len(STATES) : STATES[j] # default_state } }
    \cup { "respond_from_" \o STATES[i] : i \in 1..Len(STATES) }

\* C21: when a declared state lacks a required handler the constructor only
\* warns: it returns, the state is the default state, each missing required
\* handler is warned about, and there is no warning about on_enter of the
\* default state, which no bot has.
C21_MissingHandlerIsOnlyAWarning ==
  [][(/\ RequiredHandlers \ methods # {}
      /\ ~Malformed(lexicon)
      /\ Construct) =>
       /\ error' = "none"
       /\ Constructed'
       /\ state' = default_state
       /\ EventNames(trace', "warning") = RequiredHandlers \ methods
       /\ "on_enter_" \o default_state \notin methods
       /\ ~HasEvent(trace', Ev("warning", "on_enter_" \o default_state))]_vars

\* a bot was constructed with handlers missing
C21_Witness ==
  /\ call.op = "__init__"
  /\ Constructed
  /\ state = default_state
  /\ HasEvent(trace, Ev("warning", "respond_from_leave"))
  /\ HasEvent(trace, Ev("warning", "on_enter_captain"))

\* The state and the session memory C22 names, of a bot given as a record
SessionOf(bot) ==
  << bot.state, bot.mentor, bot.gmentor, bot.start, bot.umentor, bot.positive,
     bot.negative >>

OnEnterNames == { "on_enter_" \o STATES[i] : i \in 1..Len(STATES) }

\* In tr a producer was called and did not return
ProducerFailed(tr, names) ==
  \E k \in 1..Len(tr) :
    /\ tr[k].ev = "call"
    /\ tr[k].name \in names
    /\ \A j \in (k + 1)..Len(tr) : ~(tr[j].ev = "return" /\ tr[j].name = tr[k].name)

\* In tr every assignment to the state in names comes after the call and
\* the return of its producer
ProducerBeforeState(tr, prefix, names) ==
  \A k \in 1..Len(tr) :
    (tr[k].ev = "set_state" /\ tr[k].name \in names) =>
      \E i, j \in 1..(k - 1) :
        /\ i < j
        /\ tr[i] = Ev("call", prefix \o tr[k].name)
        /\ tr[j].ev = "return" /\ tr[j].name = prefix \o tr[k].name

\* C23: go_to_state calls the on_enter producer and sets the state
\* afterwards: the producer finds and leaves the previous state, and when
\* it raises, respond raises that error and the state is the one before
\* the call.
C23_ProducerRunsBeforeStateIsSet ==
  [][call'.op = "respond" =>
       /\ ProducerBeforeState(trace', "on_enter_", { STATES[i] : i \in 2..Len(STATES) })
       /\ \A s \in EventNames(trace', "set_state") \ { default_state } :
            \A p \in call_on_enter(Self, s) : p.self.state = state
       /\ ProducerFailed(trace', OnEnterNames) =>
            /\ error' \notin { "none" } \cup UsageErrors
            /\ response' = NoResponse
            /\ state' = state
            /\ CountEvents(trace', "set_state") = 0]_vars

\* a producer raised inside respond and the state stayed
C23_Witness ==
  /\ call.op = "respond"
  /\ ProducerFailed(trace, OnEnterNames)
  /\ error = "KeyError"
  /\ state = "ask_number"

\* C24: the state and the session memory after respond are a function of
\* the state, the memory and the tags of the message: any two runs of
\* respond on the same bot and message end in the same state with the same
\* memory, whatever text each of them returns.
C24_NextStateIsDeterministic ==
  \A message \in Messages :
    \A o1, o2 \in respond(Self, message) :
      /\ o1.error = o2.error
      /\ SessionOf(o1.self) = SessionOf(o2.self)

FinishNames == { "finish_" \o m : m \in Manners }

\* In tr the finish method was looked up and is not there
ProducerMissing(tr, names) ==
  \E k \in 1..Len(tr) :
    tr[k].ev = "getattr" /\ tr[k].name \in names /\ tr[k].name \notin methods

\* C25: finish calls the finish producer and resets the state afterwards:
\* with no producer for the manner, or with a producer that raises, the
\* caller gets the error and the state is the one before the call.
C25_FinishProducerRunsBeforeReset ==
  [][/\ \A k \in 1..Len(trace') :
          trace'[k] = Ev("set_state", default_state) =>
            \E i, j \in 1..(k - 1) :
              /\ i < j
              /\ trace'[i].ev = "call" /\ trace'[i].name \in FinishNames
              /\ trace'[j].ev = "return" /\ trace'[j].name = trace'[i].name
     /\ ProducerMissing(trace', FinishNames) =>
          /\ error' = NoMethod
          /\ response' = NoResponse
          /\ state' = state
          /\ CountEvents(trace', "set_state") = 0
     /\ ProducerFailed(trace', FinishNames) =>
          /\ error' \notin { "none" } \cup UsageErrors
          /\ response' = NoResponse
          /\ state' = state
          /\ CountEvents(trace', "set_state") = 0]_vars

\* finish_location raised in a conversation and the state stayed
C25_Witness ==
  /\ call = [op |-> "finish", name |-> "location"]
  /\ ProducerFailed(trace, FinishNames)
  /\ error # "none"
  /\ state \notin { default_state, None }

\* The precedence C26 states: the operation and its argument for the tags of
\* a message and the value of start
WaitingRule(tags, st) ==
  CASE "leave" \in DOMAIN tags -> [op |-> "go_to_state", name |-> "leave"]
    [] OTHER ->
  CASE "question" \in DOMAIN tags -> [op |-> "finish", name |-> "coach"]
    [] OTHER ->
  CASE "coach" \in DOMAIN tags -> [op |-> "go_to_state", name |-> "sad_life"]
    [] OTHER ->
  CASE { "team", "sad_life" } \cap DOMAIN tags # {} ->
         [op |-> "go_to_state", name |-> "bad_transition"]
    [] OTHER ->
  CASE "greeting" \in DOMAIN tags -> [op |-> "go_to_state", name |-> "introduction"]
    [] OTHER ->
  CASE "thanks" \in DOMAIN tags \/ ("no" \in DOMAIN tags /\ st > 0) ->
         [op |-> "finish", name |-> "woo"]
    [] OTHER ->
  CASE "yes" \in DOMAIN tags -> [op |-> "finish", name |-> "success"]
    [] OTHER ->
  CASE "no" \in DOMAIN tags /\ st = 0 -> [op |-> "finish", name |-> "fail"]
    [] OTHER -> [op |-> "finish", name |-> "confused"]

\* Messages with the tags of two rules, besides those of Messages
M_what_coach == << "w", "h", "a", "t", " ", "c", "o", "a", "c", "h" >>
M_coach_team == << "c", "o", "a", "c", "h", " ", "t", "e", "a", "m" >>
M_hi_team == << "h", "i", " ", "t", "e", "a", "m" >>
M_hello_thanks == << "h", "e", "l", "l", "o", " ", "t", "h", "a", "n", "k", "s" >>
M_leave_what == << "l", "e", "a", "v", "e", " ", "w", "h", "a", "t" >>

WaitingMessages ==
  Messages \cup { M_what_coach, M_coach_team, M_hi_team, M_hello_thanks, M_leave_what }

waiting_tags_of ==
  [m \in WaitingMessages |-> IF m \in Messages THEN tags_of[m] ELSE _get_tags(TAGS, m)]

\* C26: in the default state respond decides by the first rule, in the
\* order leave, question, coach, team or sad_life, greeting, thanks (or no
\* with start > 0), yes, no with start = 0, whose tag the message has, and
\* by finish('confused') when it has none; tags of later rules change
\* nothing.
C26_WaitingAppliesFixedPrecedence ==
  state = default_state =>
    \A message \in WaitingMessages :
      \A o \in respond_from_waiting(Self, message, waiting_tags_of[message]) :
        LET rule == WaitingRule(waiting_tags_of[message], start) IN
        /\ o.error = "none"
        /\ EventNames(o.trace, rule.op) = { rule.name }
        /\ CountEvents(o.trace, "go_to_state") + CountEvents(o.trace, "finish") = 1
        /\ o.self.state = IF rule.op = "go_to_state" THEN rule.name ELSE default_state

\* 'leave', which has the tags leave and no, was answered from the default
\* state, and every rule but the last two has a message with a tag of a
\* later rule as well
C26_Witness ==
  /\ state = "leave"
  /\ call.op = "respond"
  /\ HasEvent(trace, Ev("call", "respond_from_waiting"))
  /\ Has(tags_of[M_leave], "leave") /\ Has(tags_of[M_leave], "no")
  /\ \A r \in { "leave", "coach", "sad_life", "bad_transition", "introduction", "woo", "success" } :
       \E m \in WaitingMessages :
         /\ WaitingRule(waiting_tags_of[m], 0).name = r
         /\ \E t \in DOMAIN waiting_tags_of[m] : WaitingRule(t :> 1, 0).name # r

\* The messages whose only tag is "no"
NoOnly == { message \in Messages : DOMAIN tags_of[message] = { "no" } }

\* start after a call with the engine steps tr that found start at st
StartAfter(tr, st) ==
  IF HasEvent(tr, Ev("call", "on_enter_introduction")) THEN 0
  ELSE IF \E m \in { "help", "woo", "ask_user" } :
            \E k \in 1..Len(tr) : tr[k].ev = "return" /\ tr[k].name = "finish_" \o m
    THEN st + 1
  ELSE st

\* C27: in the default state a message whose only tag is no finishes with
\* 'fail' when start = 0 and with 'woo' otherwise; and start is 0 after
\* on_enter_introduction, one more after a finish with 'help', 'woo' or
\* 'ask_user', and unchanged by everything else, so that start = 0 exactly
\* when no such finish happened since the bot was created or last entered
\* 'introduction'.
C27_NoFailsOnlyBeforeAnyCountedFinish ==
  [][/\ \A message \in NoOnly :
          (state = default_state /\ Respond(message)) =>
            /\ error' = "none"
            /\ EventNames(trace', "finish") = { IF start = 0 THEN "fail" ELSE "woo" }
     /\ start' = StartAfter(trace', start)]_vars

\* a no was answered with finish('fail') in the default state
C27_Witness ==
  /\ state = default_state
  /\ call.op = "respond"
  /\ HasEvent(trace, Ev("call", "respond_from_waiting"))
  /\ HasEvent(trace, Ev("finish", "fail"))
  /\ start = 0

\* C28: whenever the state is 'confused', positive is 'yes_coach' and
\* negative is 'no_coach', both declared states other than the default, and
\* medium_rare is None; so respond_from_confused never calls go_to_state on
\* None or an undeclared state, and a message that is neither a no nor a
\* yes keeps the bot in 'confused' (the medium_rare branch is never taken).
C28_ConfusedRemembersItsTargets ==
  state = "confused" =>
    /\ positive = "yes_coach" /\ DeclaredNonDefault(positive)
    /\ negative = "no_coach" /\ DeclaredNonDefault(negative)
    /\ medium_rare = None
    /\ \A message \in Messages : \A o \in respond(Self, message) :
         /\ o.error \notin UsageErrors
         /\ HasEvent(o.trace, Ev("call", "respond_from_confused"))
         /\ \A s \in EventNames(o.trace, "go_to_state") : DeclaredNonDefault(s)
         /\ EventNames(o.trace, "go_to_state") =
              { IF Has(tags_of[message], "no") THEN "no_coach"
                ELSE IF Has(tags_of[message], "yes") THEN "yes_coach"
                ELSE "confused" }

\* 'fine', whose only tag is medium_rare, was answered in the state
\* 'confused'
C28_Witness ==
  /\ state = "confused"
  /\ call.op = "respond"
  /\ HasEvent(trace, Ev("call", "respond_from_confused"))
  /\ current = "bad_transition"
  /\ DOMAIN tags_of[M_fine] = { "medium_rare" }

\* The states that use the remembered mentor
MentorStates == { "ms_mentor", "ws_mentor", "ask_number", "give_number" }

WomensSoccer == { WOMENS_SOCCER[i] : i \in 1..Len(WOMENS_SOCCER) }

\* The mentor states the bot is in or whose on_enter producer the last call ran
MentorStatesEntered ==
  { s \in MentorStates : state = s \/ HasEvent(trace, Ev("call", "on_enter_" \o s)) }

\* C29: whenever the state is 'ms_mentor', 'ws_mentor', 'ask_number' or
\* 'give_number', and whenever the on_enter producer of one of them has run,
\* mentor is a member of MENS_SOCCER or WOMENS_SOCCER, gmentor is 'm'
\* exactly when it is in MENS_SOCCER and 'f' exactly when it is in
\* WOMENS_SOCCER; 'ms_mentor' goes with 'm' and 'ws_mentor' with 'f'.
C29_MentorIsKnownWhereItIsUsed ==
  /\ MentorStatesEntered # {} =>
       /\ mentor \in MENS_SOCCER \cup WomensSoccer
       /\ gmentor = "m" <=> mentor \in MENS_SOCCER
       /\ gmentor = "f" <=> mentor \in WomensSoccer
  /\ "ms_mentor" \in MentorStatesEntered => gmentor = "m"
  /\ "ws_mentor" \in MentorStatesEntered => gmentor = "f"

\* a women's mentor was named in the state 'unrecognized_mentor'
C29_Witness ==
  /\ state = "ws_mentor"
  /\ call.op = "respond"
  /\ HasEvent(trace, Ev("call", "respond_from_unrecognized_mentor"))
  /\ HasEvent(trace, Ev("call", "on_enter_ws_mentor"))
  /\ mentor \in WomensSoccer

\* The messages with the tag yes
YesMessages == { message \in Messages : Has(tags_of[message], "yes") }

\* C30: for every mentor the bot can remember, a yes in the state
\* 'ask_number' enters 'give_number': SOCCER_MENTOR_NUMBERS has the mentor,
\* on_enter_give_number returns the text with the number, and the state
\* becomes 'give_number'.
C30_EveryMentorHasANumber ==
  state = "ask_number" =>
    /\ mentor \in DOMAIN SOCCER_MENTOR_NUMBERS
    /\ \A message \in YesMessages : \A o \in respond(Self, message) :
         /\ o.error = "none"
         /\ o.self.state = "give_number"
         /\ HasEvent(o.trace, EvText("return", "on_enter_give_number", o.response))

\* How many times the call with the engine steps tr ran on_enter_unrecognized_mentor
UnrecognizedEntries(tr) ==
  Cardinality({ k \in 1..Len(tr) : tr[k] = Ev("call", "on_enter_unrecognized_mentor") })

\* C31: umentor grows by one on every entry into 'unrecognized_mentor', a
\* transition from that state to itself included, and no other operation,
\* finish included, changes it; the entry that finds umentor at 0 returns
\* the 'unrecognized_mentor' prompt and every other entry, also in a later
\* flow, the 'more_unrecognized' prompt.
C31_UnrecognizedMentorIsCountedForLife ==
  [][/\ umentor' = umentor + UnrecognizedEntries(trace')
     /\ UnrecognizedEntries(trace') =
          IF HasEvent(trace', Ev("set_state", "unrecognized_mentor")) THEN 1 ELSE 0
     /\ UnrecognizedEntries(trace') = 1 =>
          /\ error' = "none"
          /\ state' = "unrecognized_mentor"
          /\ response' \in get_random_state_response(IF umentor = 0 THEN "unrecognized_mentor"
                                                                      ELSE "more_unrecognized")
          /\ get_random_state_response("unrecognized_mentor")
               \cap get_random_state_response("more_unrecognized") = {}]_vars

\* 'unrecognized_mentor' was entered from 'soccer' a second time, in a session
\* where a finish has counted
C31_Witness ==
  /\ state = "unrecognized_mentor"
  /\ call.op = "respond"
  /\ HasEvent(trace, Ev("call", "respond_from_soccer"))
  /\ umentor = 2
  /\ start > 0
  /\ response \in get_random_state_response("more_unrecognized")

\* The bots that one more message makes of the bots of S
Successors(S) ==
  UNION { { o.self : o \in { x \in respond(b, message) : WithinBounds(x) } }
          : b \in S, message \in Messages }

\* The bots that some sequence of messages makes of the bots of seen, all of
\* whose successors but those of frontier are in seen already
RECURSIVE ReachableBots(_, _)
ReachableBots(seen, frontier) ==
  IF frontier = {} THEN seen
  ELSE LET next == Successors(frontier) \ seen
       IN ReachableBots(seen \cup next, next)

DeclaredStates == { STATES[i] : i \in 1..Len(STATES) }

\* C32: whatever messages a fresh OxyCSBot gets, its state is never
\* 'sciac_matchup'; and for every other declared state some sequence of
\* messages brings the fresh bot into it.
C32_OnlySciacMatchupIsUnreachable ==
  /\ state # "sciac_matchup"
  /\ call.op = "__init__" =>
       DeclaredStates \ { b.state : b \in ReachableBots({ Self }, { Self }) }
         = { "sciac_matchup" }

\* 'amber', whose text ends with the 'sciac_matchup' prompt, was answered:
\* the bot went on to 'sciac_response'
C32_Witness ==
  /\ state = "sciac_response"
  /\ call.op = "respond"
  /\ HasEvent(trace, Ev("call", "respond_from_amber"))
  /\ HasEvent(trace, Ev("set_state", "sciac_response"))

====
